---------------------------- MODULE Spec2Model ----------------------------
(***************************************************************************)
(* A model of the simulation core of the space_invaders repository: the    *)
(* fixed-timestep scheduler (useGameLoop), the game state machine          *)
(* (GameStateManager), the entity pools (ObjectPool), the input latch      *)
(* (useKeyboard) and the per-tick game logic of the SpaceInvadersGame      *)
(* component.  Times are in units of 0.01 ms, so that the tick duration    *)
(* 16.67 ms is the integer 1667.                                           *)
(***************************************************************************)
EXTENDS Integers, Sequences, FiniteSets, TLC

VARIABLES
  \* ---- useGameLoop ----
  clock,          \* the host's animation-frame timestamp
  previousTime,   \* previousTimeRef.current (Undefined before the first frame)
  lag,            \* lagRef.current, the accumulator
  fpsCounter,     \* fpsCounterRef.current
  requestRef,     \* TRUE while the request named by requestRef.current is pending
  pending,        \* the number of frame callbacks of the loop the host holds
  torn,           \* TRUE once the hook is unmounted
  fault,          \* what the catch blocks of the last frame callback caught
  isActive,       \* the hook's isActive argument
  calls,          \* the callbacks invoked by the last frame callback, in order
  interp,         \* the argument of the last onRender call, as a fraction
  \* ---- an ObjectPool<PooledBullet> driven through its public methods ----
  tpool,          \* the pool: its free list (pool), active list and maxSize
  lastGet,        \* the result of the last get() call
  poolOp,         \* the last method called on the pool
  lastCall,       \* that call's handle argument and how many instances it reclaimed
  \* ---- GameStateManager ----
  state,          \* this.state
  listeners,      \* this.listeners, in subscription order
  eventHandlers,  \* this.eventHandlers: event type -> handlers, in order
  log,            \* the listener and handler calls made by the last operation
  emitted,        \* the events passed to emitEvent by the last operation
  lastOp,         \* the last operation called on the manager
  \* ---- useKeyboard ----
  kb,             \* keysRef, justPressedRef, justReleasedRef, previousKeysRef
  keyLog,         \* history: the last input event and the key-downs and key-ups since the last frame
  \* ---- the SpaceInvadersGame component ----
  bulletPool,     \* the bulletPool instance
  particlePool,   \* the particlePool instance
  perf,           \* the PerformanceMonitor
  \* ---- updateEnemyPositions applied to a formation ----
  formation,      \* the Enemy[] passed to and returned by updateEnemyPositions
  movedDown,      \* the shouldMoveDown flag returned by the last call
  formationTicks, \* the number of calls made
  \* ---- the pure functions of gameLogic applied to arguments ----
  calc            \* the last call: the function, its arguments and its result

loopVars == <<clock, previousTime, lag, fpsCounter, requestRef, pending, torn,
              fault, isActive, calls, interp>>

poolVars == <<tpool, lastGet, poolOp, lastCall>>

gsmVars == <<state, listeners, eventHandlers, log, emitted, lastOp>>

gameVars == <<kb, keyLog, bulletPool, particlePool, perf>>

formVars == <<formation, movedDown, formationTicks>>

calcVars == <<calc>>

vars == <<loopVars, poolVars, gsmVars, gameVars, formVars, calcVars>>

\* What the actions of one component leave alone.
notLoop == <<poolVars, gsmVars, gameVars, formVars, calcVars>>
notPool == <<loopVars, gsmVars, gameVars, formVars, calcVars>>
notGsm == <<loopVars, poolVars, gameVars, formVars, calcVars>>
notForm == <<loopVars, poolVars, gsmVars, gameVars, calcVars>>
notCalc == <<loopVars, poolVars, gsmVars, gameVars, formVars>>
notKb == <<bulletPool, particlePool, perf, loopVars, poolVars, gsmVars, formVars, calcVars>>

(***************************************************************************)
(* Bounds of the model.                                                    *)
(***************************************************************************)
MaxTime == 19000
MaxPoolSize == 2
MaxListeners == 2
MaxHandlers == 2
MaxLevel == 2
MaxScore == 30
MaxGameTime == 14000
MaxTicks == 2
MaxUnitTicks == 2
MaxGridTicks == 460
MaxInFlight == 2
MaxMonitorCalls == 130

(***************************************************************************)
(* Program constants.                                                      *)
(***************************************************************************)
TargetFrameTime == 1667
MaxUpdates == 5
FpsWindow == 100000
Undefined == -1
BulletWidth == 4
BulletHeight == 10
BulletSpeed == 7
CanvasWidth == 800
CanvasHeight == 600
PlayerWidth == 50
PlayerHeight == 30
PlayerSpeed == 5
PlayerStartX == 400
PlayerStartY == 550
EnemyWidth == 40
EnemyHeight == 30
EnemySpeed == 1
EnemyRows == 5
EnemyCols == 10
EnemySpacingH == 20
EnemySpacingV == 15
EnemyStartX == 50
EnemyStartY == 50
EnemyDropDistance == 20
InitialLives == 3
PointsPerEnemy == 10
ParticleCount == 10
ParticleMaxLife == 30
EnemyAnimationSpeed == 50000
BulletPoolInitial == 20
BulletPoolMax == 50
ParticlePoolInitial == 50
ParticlePoolMax == 200
MaxBullets == 5

\* Elapsed times between two animation frames: less than a tick, one tick,
\* a stall of more than five ticks, and a burst of exactly ten ticks.
Deltas == {1000, 1667, 9000, 16670}

(***************************************************************************)
(* PooledBullet.  An instance is a record; its id stands for the object's  *)
(* identity.                                                               *)
(***************************************************************************)
NewBullet(id) == [id |-> id, x |-> 0, y |-> 0, active |-> FALSE]

BulletInit(b, x, y) == [b EXCEPT !.x = x, !.y = y, !.active = TRUE]

BulletReset(b) == [b EXCEPT !.x = 0, !.y = 0, !.active = FALSE]

BulletIsActive(b) == b.active /\ b.y > -BulletHeight

BulletUpdate(b) ==
  IF b.active
  THEN LET y == b.y - BulletSpeed
       IN [b EXCEPT !.y = y, !.active = ~(y < -BulletHeight)]
  ELSE b

(***************************************************************************)
(* PooledParticle.  Its position and velocity (x, y, vx, vy: floats drawn  *)
(* from Math.random) decide nothing and are left out; life and color are   *)
(* kept.                                                                   *)
(***************************************************************************)
NewParticle(id) == [id |-> id, life |-> 0, color |-> "#ffffff"]

ParticleInit(q, color) == [q EXCEPT !.life = ParticleMaxLife, !.color = color]

ParticleReset(q) == [q EXCEPT !.life = 0, !.color = "#ffffff"]

ParticleIsActive(q) == q.life > 0

ParticleUpdate(q) == IF q.life > 0 THEN [q EXCEPT !.life = @ - 1] ELSE q

(***************************************************************************)
(* The closures an ObjectPool is constructed with and the methods it calls *)
(* on its instances.  kind names the pair (createFn, resetFn) of the pool: *)
(* "bullet" for () => new PooledBullet() and bullet.reset(), "particle"    *)
(* for () => new PooledParticle() and particle.reset().                    *)
(***************************************************************************)
CreateFn(kind, id) ==
  IF kind = "bullet" THEN NewBullet(id) ELSE NewParticle(id)

ResetFn(kind, obj) ==
  IF kind = "bullet" THEN BulletReset(obj) ELSE ParticleReset(obj)

ObjIsActive(kind, obj) ==
  IF kind = "bullet" THEN BulletIsActive(obj) ELSE ParticleIsActive(obj)

ObjUpdate(kind, obj) ==
  IF kind = "bullet" THEN BulletUpdate(obj) ELSE ParticleUpdate(obj)

(***************************************************************************)
(* ObjectPool<T>.  pool is the free list, active the active list; created  *)
(* counts the instances constructed so far and numbers the next one.       *)
(***************************************************************************)
NoObject == [id |-> 0]

\* The constructor: initialSize instances are pushed on the free list.
PoolNew(kind, initialSize, maxSize) ==
  [kind |-> kind,
   pool |-> [i \in 1..initialSize |-> CreateFn(kind, i)], active |-> <<>>,
   maxSize |-> maxSize, created |-> initialSize]

\* The capacity test of get(): may a new instance be constructed?
PoolHasRoomInclusive(nActive, nFree, maxSize) == nActive + nFree <= maxSize
PoolHasRoom(nActive, nFree, maxSize) == nActive + nFree < maxSize

\* get(): the result is the pool afterwards, whether an instance was
\* returned, and the instance (the return value null is ok = FALSE).
PoolGet(p) ==
  LET popped == p.pool # <<>>
      rest == IF popped THEN SubSeq(p.pool, 1, Len(p.pool) - 1) ELSE p.pool
      make == ~popped /\ PoolHasRoom(Len(p.active), Len(rest), p.maxSize)
      obj == IF popped THEN p.pool[Len(p.pool)]
             ELSE IF make THEN CreateFn(p.kind, p.created + 1) ELSE NoObject
  IN IF popped \/ make
     THEN [p |-> [p EXCEPT !.pool = rest, !.active = Append(@, obj),
                           !.created = IF make THEN @ + 1 ELSE @],
           ok |-> TRUE, obj |-> obj]
     ELSE [p |-> [p EXCEPT !.pool = rest], ok |-> FALSE, obj |-> NoObject]

\* active.indexOf(obj): the first index holding the instance, 0 for JS's -1.
IndexOfId(s, id) ==
  IF \E i \in 1..Len(s) : s[i].id = id
  THEN CHOOSE i \in 1..Len(s) :
         s[i].id = id /\ \A j \in 1..(i - 1) : s[j].id # id
  ELSE 0

\* s.splice(i, 1)
SpliceOut(s, i) == SubSeq(s, 1, i - 1) \o SubSeq(s, i + 1, Len(s))

\* release(obj)
PoolReleaseUnchecked(p, id) ==
  LET index == IndexOfId(p.active, id) IN
  [p EXCEPT !.active = IF index > 0 THEN SpliceOut(@, index) ELSE @,
            !.pool = Append(@, ResetFn(p.kind,
                       IF index > 0 THEN p.active[index] ELSE CreateFn(p.kind, id)))]
PoolRelease(p, id) ==
  LET index == IndexOfId(p.active, id) IN
  IF index > 0
  THEN [p EXCEPT !.active = SpliceOut(@, index),
                 !.pool = Append(@, ResetFn(p.kind, p.active[index]))]
  ELSE p

\* releaseAll()
PoolReleaseAllNoReset(p) == [p EXCEPT !.pool = @ \o p.active, !.active = <<>>]
PoolReleaseAll(p) ==
  [p EXCEPT !.pool = @ \o [i \in 1..Len(p.active) |-> ResetFn(p.kind, p.active[i])],
            !.active = <<>>]

\* getActive()
PoolGetActive(p) ==
  SelectSeq(p.active, LAMBDA obj : ObjIsActive(p.kind, obj))

\* update(): the active list is scanned from its end, and every instance
\* that reports inactive is spliced out, reset and pushed on the free list.
PoolUpdateForward(p) ==
  LET RECURSIVE From(_, _)
      From(q, i) ==
        IF i > Len(q.active) THEN q
        ELSE IF ~ObjIsActive(q.kind, q.active[i])
             THEN From([q EXCEPT !.active = SpliceOut(@, i),
                                 !.pool = Append(@, ResetFn(q.kind, q.active[i]))], i + 1)
             ELSE From(q, i + 1)
  IN From(p, 1)
PoolUpdate(p) ==
  LET RECURSIVE From(_, _)
      From(q, i) ==
        IF i < 1 THEN q
        ELSE IF ~ObjIsActive(q.kind, q.active[i])
             THEN From([q EXCEPT !.active = SpliceOut(@, i),
                                 !.pool = Append(@, ResetFn(q.kind, q.active[i]))], i - 1)
             ELSE From(q, i - 1)
  IN From(p, Len(p.active))

\* getStats().totalSize
PoolTotalSize(p) == Len(p.pool) + Len(p.active)

\* The active instance a client holds a reference to.
ActiveObj(p, id) == p.active[IndexOfId(p.active, id)]

\* A client changes the instance it holds (init, update, active = false):
\* the active list holds the same object, so it shows the new fields.
PoolPut(p, obj) ==
  [p EXCEPT !.active =
     [i \in 1..Len(@) |-> IF @[i].id = obj.id THEN obj ELSE @[i]]]

(***************************************************************************)
(* A pool of bullets driven through its public methods, as the tests of    *)
(* ObjectPool do: new ObjectPool(() => new PooledBullet(), initial, max).  *)
(***************************************************************************)
ActiveIds(p) == {p.active[i].id : i \in 1..Len(p.active)}

\* The y coordinates a client passes to init.
InitYs == {4, 5}

\* What is recorded of a call: the handle passed to it (0 when it takes
\* none) and the number of instances it took off the active list, the
\* difference of getStats().activeSize before and after.
Called(arg, before, after) ==
  [arg |-> arg,
   reclaimed |-> IF Len(before.active) > Len(after.active)
                 THEN Len(before.active) - Len(after.active) ELSE 0]

PoolIdle ==
  /\ tpool = PoolNew("bullet", 0, 0)
  /\ lastGet = [ok |-> FALSE, id |-> 0]
  /\ poolOp = "new"
  /\ lastCall = [arg |-> 0, reclaimed |-> 0]

TGet ==
  LET r == PoolGet(tpool) IN
  /\ tpool' = r.p
  /\ lastGet' = [ok |-> r.ok, id |-> r.obj.id]
  /\ poolOp' = "get"
  /\ lastCall' = Called(0, tpool, r.p)
  /\ UNCHANGED notPool

\* release is called with any handle: an active one, a released one, or one
\* the pool never created.
TRelease ==
  \E id \in 1..(tpool.maxSize + 1) :
    /\ tpool' = PoolRelease(tpool, id)
    /\ poolOp' = "release"
    /\ lastCall' = Called(id, tpool, tpool')
    /\ UNCHANGED <<lastGet, notPool>>

TReleaseAll ==
  /\ tpool' = PoolReleaseAll(tpool)
  /\ poolOp' = "releaseAll"
  /\ lastCall' = Called(0, tpool, tpool')
  /\ UNCHANGED <<lastGet, notPool>>

TUpdate ==
  /\ tpool' = PoolUpdate(tpool)
  /\ poolOp' = "update"
  /\ lastCall' = Called(0, tpool, tpool')
  /\ UNCHANGED <<lastGet, notPool>>

\* The holder of an active instance calls init on it.
TBulletInit ==
  \E id \in ActiveIds(tpool), y \in InitYs :
    /\ tpool' = PoolPut(tpool, BulletInit(ActiveObj(tpool, id), 0, y))
    /\ poolOp' = "init"
    /\ lastCall' = Called(0, tpool, tpool')
    /\ UNCHANGED <<lastGet, notPool>>

\* The holder of an active instance calls its update().
TBulletUpdate ==
  \E id \in ActiveIds(tpool) :
    /\ tpool' = PoolPut(tpool, BulletUpdate(ActiveObj(tpool, id)))
    /\ poolOp' = "bulletUpdate"
    /\ lastCall' = Called(0, tpool, tpool')
    /\ UNCHANGED <<lastGet, notPool>>

\* The holder of an active instance sets active = false (a hit).
TBulletHit ==
  \E id \in ActiveIds(tpool) :
    /\ tpool' = PoolPut(tpool, [ActiveObj(tpool, id) EXCEPT !.active = FALSE])
    /\ poolOp' = "hit"
    /\ lastCall' = Called(0, tpool, tpool')
    /\ UNCHANGED <<lastGet, notPool>>


(***************************************************************************)
(* gameLogic: the enemy grid.                                              *)
(***************************************************************************)
CreateEnemyGrid ==
  [i \in 1..(EnemyRows * EnemyCols) |->
     LET row == (i - 1) \div EnemyCols
         col == (i - 1) % EnemyCols
     IN [x |-> col * (EnemyWidth + EnemySpacingH) + EnemyStartX,
         y |-> row * (EnemyHeight + EnemySpacingV) + EnemyStartY,
         width |-> EnemyWidth, height |-> EnemyHeight, speed |-> EnemySpeed,
         active |-> TRUE, direction |-> 1, animFrame |-> 0,
         row |-> row, col |-> col]]

(***************************************************************************)
(* GameStateManager.  Its operations are functions of a manager record m   *)
(* (state, listeners, eventHandlers) that also collects the calls made:    *)
(* m.emitted is every event passed to emitEvent and m.log every listener   *)
(* and handler invocation, in order.                                       *)
(***************************************************************************)
EventTypes ==
  {"playing", "paused", "gameOver", "levelComplete", "playerHit", "enemyDestroyed"}

\* The listeners and handlers a client registers, by what they do when
\* called: "a" and "b" only read the state, "thrower" throws, "once" calls
\* its own unsubscribe function, "adder" registers "b" at the place it is
\* registered itself (while fewer than MaxListeners are registered).
ListenerIds == {"a", "b", "thrower", "once", "adder"}

Throws(id) == id = "thrower"

\* handlers.indexOf(handler): the first index, 0 for JS's -1.
IndexOf(s, e) ==
  IF \E i \in 1..Len(s) : s[i] = e
  THEN CHOOSE i \in 1..Len(s) : s[i] = e /\ \A j \in 1..(i - 1) : s[j] # e
  ELSE 0

\* The unsubscribe function returned by subscribe / addEventListener.
Unsubscribed(arr, id) ==
  LET index == IndexOf(arr, id) IN
  IF index > 0 THEN SpliceOut(arr, index) ELSE arr

\* What the call of a listener does to the array it is registered in.
CallEffect(id, arr) ==
  CASE id = "once" -> Unsubscribed(arr, id)
    [] id = "adder" -> IF Len(arr) < MaxListeners THEN Append(arr, "b") ELSE arr
    [] OTHER -> arr

\* The catch blocks of emitEvent and notifyListeners: the error is logged
\* and forEach goes on with the next index.
EmitCatch(k, len) == k + 1

NotifyCatchBreaks(k, len) == len + 1
NotifyCatch(k, len) == k + 1

\* The catch block of the forEach at the given site.
Catch(site, k, len) ==
  IF site = "emitEvent" THEN EmitCatch(k, len) ELSE NotifyCatch(k, len)

\* arr.forEach(callback) on the live array: the length is read once, and
\* index k is visited when the array still has an element there.
ForEachCall(arr, site) ==
  LET len == Len(arr)
      RECURSIVE Step(_, _, _)
      Step(a, k, inv) ==
        IF k > len THEN [arr |-> a, invoked |-> inv]
        ELSE IF k > Len(a) THEN Step(a, k + 1, inv)
        ELSE LET id == a[k]
             IN IF Throws(id)
                THEN Step(a, Catch(site, k, len), Append(inv, id))
                ELSE Step(CallEffect(id, a), k + 1, Append(inv, id))
  IN Step(arr, 1, <<>>)

\* emitEvent(event)
EmitEvent(m, type, data) ==
  LET r == ForEachCall(m.eventHandlers[type], "emitEvent") IN
  [m EXCEPT !.eventHandlers[type] = r.arr,
            !.emitted = Append(@, [type |-> type, data |-> data]),
            !.log = @ \o [i \in 1..Len(r.invoked) |->
                            [ch |-> "event", id |-> r.invoked[i],
                             type |-> type, data |-> data]]]

\* notifyListeners(): every listener is called with this.state.
NotifyListeners(m) ==
  LET r == ForEachCall(m.listeners, "notifyListeners") IN
  [m EXCEPT !.listeners = r.arr,
            !.log = @ \o [i \in 1..Len(r.invoked) |->
                            [ch |-> "listener", id |-> r.invoked[i],
                             type |-> "state",
                             data |-> [phase |-> m.state.phase]]]]

CreatePlayer ==
  [x |-> PlayerStartX - PlayerWidth \div 2, y |-> PlayerStartY,
   width |-> PlayerWidth, height |-> PlayerHeight, speed |-> PlayerSpeed,
   active |-> TRUE, lives |-> InitialLives]

CreateInitialState ==
  [phase |-> "start", score |-> 0, lives |-> InitialLives, level |-> 1,
   enemies |-> <<>>, bullets |-> <<>>, particles |-> <<>>,
   player |-> CreatePlayer, lastUpdateTime |-> 0, fps |-> 0]

\* { ...this.state, ...updates }
Merge(st, updates) ==
  [f \in DOMAIN st |-> IF f \in DOMAIN updates THEN updates[f] ELSE st[f]]

\* updateState(updates)
PhaseChangeEmit(m, previousPhase) ==
  IF previousPhase # m.state.phase
  THEN EmitEvent(m, m.state.phase,
                 [previousPhase |-> previousPhase, currentPhase |-> m.state.phase])
  ELSE m

UpdateState(m, updates) ==
  NotifyListeners(
    PhaseChangeEmit([m EXCEPT !.state = Merge(m.state, updates)], m.state.phase))

\* startGame()
StartGameMerges(m) ==
  NotifyListeners(
    [m EXCEPT !.state = [m.state EXCEPT !.phase = "playing",
                                        !.enemies = CreateEnemyGrid]])
StartGame(m) ==
  NotifyListeners(
    [m EXCEPT !.state = [CreateInitialState EXCEPT !.phase = "playing",
                                                   !.enemies = CreateEnemyGrid]])

\* pauseGame()
PauseAnyPhase(m) == UpdateState(m, [phase |-> "paused"])
PauseGame(m) ==
  IF m.state.phase = "playing" THEN UpdateState(m, [phase |-> "paused"]) ELSE m

\* resumeGame()
ResumeAnyPhase(m) == UpdateState(m, [phase |-> "playing"])
ResumeGame(m) ==
  IF m.state.phase = "paused" THEN UpdateState(m, [phase |-> "playing"]) ELSE m

\* gameOver(): the phase is set, then the gameOver event is emitted with
\* the score of the state just set.
GameOverEmit(m1) == EmitEvent(m1, "gameOver", [finalScore |-> m1.state.score])

GameOver(m) == GameOverEmit(UpdateState(m, [phase |-> "gameOver"]))

PlayerStays(pl) == pl
PlayerAtStart(pl) ==
  [pl EXCEPT !.x = PlayerStartX - PlayerWidth \div 2, !.y = PlayerStartY]

\* nextLevel()
NextLevel(m) ==
  EmitEvent(UpdateState(m, [level |-> m.state.level + 1,
                            enemies |-> CreateEnemyGrid,
                            bullets |-> <<>>, particles |-> <<>>,
                            player |-> PlayerAtStart(m.state.player)]),
            "levelComplete", [level |-> m.state.level + 1])

\* Math.max(0, a)
Max(a, b) == IF a >= b THEN a ELSE b
Min(a, b) == IF a <= b THEN a ELSE b

\* loseLife(): after the lives are set, the game is over or the player and
\* the formation are set up again; then playerHit is emitted.
LoseLifeKeepsGrid(m1, newLives) ==
  EmitEvent(IF newLives <= 0
            THEN GameOver(m1)
            ELSE UpdateState(m1, [player |-> PlayerAtStart(m1.state.player),
                                  bullets |-> <<>>, particles |-> <<>>]),
            "playerHit", [livesRemaining |-> newLives])
LoseLifeTo(m1, newLives) ==
  EmitEvent(IF newLives <= 0
            THEN GameOver(m1)
            ELSE UpdateState(m1, [player |-> PlayerAtStart(m1.state.player),
                                  enemies |-> CreateEnemyGrid,
                                  bullets |-> <<>>, particles |-> <<>>]),
            "playerHit", [livesRemaining |-> newLives])

LoseLifeUnclamped(m) ==
  LoseLifeTo(UpdateState(m, [lives |-> m.state.lives - 1]), m.state.lives - 1)
LoseLife(m) ==
  LoseLifeTo(UpdateState(m, [lives |-> Max(0, m.state.lives - 1)]),
             Max(0, m.state.lives - 1))

\* addScore(points)
AddScore(m, points) == UpdateState(m, [score |-> m.state.score + points])

\* updateFPS(fps)
UpdateFPS(m, fps) == UpdateState(m, [fps |-> fps])

\* reset()
Reset(m) == NotifyListeners([m EXCEPT !.state = CreateInitialState])

\* isPlaying()
IsPlayingAlways(m) == TRUE
IsPlaying(m) == m.state.phase = "playing"

\* canShoot()
CanShoot(m) == IsPlaying(m) /\ Len(m.state.bullets) < MaxBullets

(***************************************************************************)
(* The manager as a state machine: each public method is an action.        *)
(***************************************************************************)
\* The manager before an operation, with nothing collected yet.
Manager ==
  [state |-> state, listeners |-> listeners, eventHandlers |-> eventHandlers,
   log |-> <<>>, emitted |-> <<>>]

GsmSet(op, m) ==
  /\ state' = m.state
  /\ listeners' = m.listeners
  /\ eventHandlers' = m.eventHandlers
  /\ log' = m.log
  /\ emitted' = m.emitted
  /\ lastOp' = op

NumHandlers == Len(eventHandlers["playing"]) + Len(eventHandlers["paused"])
               + Len(eventHandlers["gameOver"]) + Len(eventHandlers["levelComplete"])
               + Len(eventHandlers["playerHit"]) + Len(eventHandlers["enemyDestroyed"])

GsmIdle ==
  /\ state = CreateInitialState
  /\ listeners = <<>>
  /\ eventHandlers = [t \in EventTypes |-> <<>>]
  /\ log = <<>>
  /\ emitted = <<>>
  /\ lastOp = "new"

GsmStartGame == GsmSet("startGame", StartGame(Manager)) /\ UNCHANGED notGsm

GsmPauseGame == GsmSet("pauseGame", PauseGame(Manager)) /\ UNCHANGED notGsm

GsmResumeGame == GsmSet("resumeGame", ResumeGame(Manager)) /\ UNCHANGED notGsm

GsmLoseLife == GsmSet("loseLife", LoseLife(Manager)) /\ UNCHANGED notGsm

GsmNextLevel ==
  /\ state.level < MaxLevel
  /\ GsmSet("nextLevel", NextLevel(Manager))
  /\ UNCHANGED notGsm

GsmAddScore(pointSet) ==
  \E points \in pointSet :
    /\ state.score + points \in (0 - MaxScore)..MaxScore
    /\ GsmSet("addScore", AddScore(Manager, points))
    /\ UNCHANGED notGsm

GsmReset == GsmSet("reset", Reset(Manager)) /\ UNCHANGED notGsm

\* subscribe(listener)
GsmSubscribe(ids) ==
  \E id \in ids :
    /\ Len(listeners) < MaxListeners
    /\ listeners' = Append(listeners, id)
    /\ lastOp' = "subscribe"
    /\ log' = <<>>
    /\ emitted' = <<>>
    /\ UNCHANGED <<state, eventHandlers, notGsm>>

\* The unsubscribe function returned by subscribe is called.
GsmUnsubscribe ==
  \E i \in 1..Len(listeners) :
    /\ listeners' = Unsubscribed(listeners, listeners[i])
    /\ lastOp' = "unsubscribe"
    /\ log' = <<>>
    /\ emitted' = <<>>
    /\ UNCHANGED <<state, eventHandlers, notGsm>>

\* addEventListener(eventType, handler)
GsmAddEventListener(types, ids) ==
  \E t \in types, id \in ids :
    /\ NumHandlers < MaxHandlers
    /\ eventHandlers' = [eventHandlers EXCEPT ![t] = Append(@, id)]
    /\ lastOp' = "addEventListener"
    /\ log' = <<>>
    /\ emitted' = <<>>
    /\ UNCHANGED <<state, listeners, notGsm>>

\* The unsubscribe function returned by addEventListener is called.
GsmRemoveEventListener ==
  \E t \in EventTypes : \E i \in 1..Len(eventHandlers[t]) :
    /\ eventHandlers' =
         [eventHandlers EXCEPT ![t] = Unsubscribed(@, eventHandlers[t][i])]
    /\ lastOp' = "removeEventListener"
    /\ log' = <<>>
    /\ emitted' = <<>>
    /\ UNCHANGED <<state, listeners, notGsm>>

(***************************************************************************)
(* useGameLoop: the fixed-timestep scheduler.                              *)
(***************************************************************************)

\* The while condition of the update loop.
ShouldUpdateNoCap(l, updateCount) == l >= TargetFrameTime
ShouldUpdate(l, updateCount) ==
  l >= TargetFrameTime /\ updateCount < MaxUpdates

\* The catch block of the update loop: the accumulator is reset and the
\* loop is left.
UpdateCaughtKeepsLag(l) == l
UpdateCaught(l) == 0

\* The update loop.  throwAt is the number of the onUpdate call that throws
\* (0: none does).  The result is the accumulator, the number of completed
\* updates and the calls made.
RECURSIVE FixedTimestepUpdates(_, _, _, _)
FixedTimestepUpdates(l, updateCount, throwAt, trace) ==
  IF ShouldUpdate(l, updateCount)
  THEN IF throwAt = updateCount + 1
       THEN [lag |-> UpdateCaught(l), updateCount |-> updateCount,
             calls |-> Append(trace, "update"), threw |-> TRUE]
       ELSE FixedTimestepUpdates(l - TargetFrameTime, updateCount + 1, throwAt,
                                 Append(trace, "update"))
  ELSE [lag |-> l, updateCount |-> updateCount, calls |-> trace, threw |-> FALSE]

\* interpolation = lagRef.current / targetFrameTime
Interpolation(l) == [num |-> l, den |-> TargetFrameTime]

\* The FPS bookkeeping at the end of a frame callback.
FpsCount(c, currentTime) ==
  LET frames == c.frames + 1 IN
  IF currentTime - c.lastTime >= FpsWindow
  THEN [frames |-> 0, lastTime |-> currentTime, fps |-> frames]
  ELSE [c EXCEPT !.frames = frames]

\* The callbacks made by one frame callback: the updates, then the render.
FrameCalls(r) == Append(r.calls, "render")

\* What the two catch blocks of a frame callback caught: the number of the
\* onUpdate call that threw (0: none did), whether onRender threw, and
\* whether an earlier frame callback had caught anything.
NoFault == [update |-> 0, render |-> FALSE, earlier |-> FALSE]
FaultOf(r, renderThrows) ==
  [update |-> IF r.threw THEN r.updateCount + 1 ELSE 0, render |-> renderThrows,
   earlier |-> fault.earlier \/ fault.update > 0 \/ fault.render]

\* gameLoop(currentTime): one frame callback, as the values it leaves in the
\* refs and the callbacks it made.
LoopResult(currentTime, throwAt, renderThrows) ==
  IF ~isActive
  THEN [previousTime |-> previousTime, lag |-> lag, fpsCounter |-> fpsCounter,
        calls |-> <<>>, interp |-> interp, updateCount |-> 0, fault |-> FaultOf([threw |-> FALSE], FALSE)]
  ELSE LET prev == IF previousTime = Undefined THEN currentTime ELSE previousTime
           deltaTime == currentTime - prev
           r == FixedTimestepUpdates(lag + deltaTime, 0, throwAt, <<>>)
       IN [previousTime |-> currentTime, lag |-> r.lag,
           fpsCounter |-> FpsCount(fpsCounter, currentTime),
           calls |-> FrameCalls(r), interp |-> Interpolation(r.lag),
           updateCount |-> r.updateCount,
           fault |-> FaultOf(r, renderThrows)]

\* The host's side of requestAnimationFrame and cancelAnimationFrame for the
\* loop: how many of its callbacks are pending, and whether the one whose
\* handle is in requestRef.current is among them.
Host == [pending |-> pending, current |-> requestRef]

\* requestRef.current = requestAnimationFrame(gameLoop)
RequestAnimationFrame(h) == [pending |-> h.pending + 1, current |-> TRUE]

\* The effect's cleanup: cancelAnimationFrame(requestRef.current), which
\* does nothing for a handle that is undefined or no longer pending.
CleanupSkipsCancel(h) == h
Cleanup(h) ==
  IF h.current THEN [pending |-> h.pending - 1, current |-> FALSE] ELSE h

\* The host takes one pending callback of the loop to run it.
Taken(h) == [pending |-> h.pending - 1, current |-> FALSE]

\* The end of a frame callback: the exception of onRender was caught, so
\* line 69 is reached and the next frame is requested.
RearmUnlessRenderThrew(h, f) ==
  IF f.render THEN h ELSE RequestAnimationFrame(h)
Rearm(h, f) == RequestAnimationFrame(h)

\* The frame callback's assignments; it requests the next frame.
LoopSet(r) ==
  /\ previousTime' = r.previousTime
  /\ lag' = r.lag
  /\ fpsCounter' = r.fpsCounter
  /\ calls' = r.calls
  /\ interp' = r.interp
  /\ fault' = r.fault
  /\ requestRef' = Rearm(Taken(Host), r.fault).current
  /\ pending' = Rearm(Taken(Host), r.fault).pending

\* The host runs the pending frame callback: onUpdate may throw at any of its
\* calls, and onRender may throw (which changes nothing: it is caught).
LoopFrame ==
  /\ pending > 0
  /\ \E d \in Deltas, throwAt \in 0..MaxUpdates, renderThrows \in BOOLEAN :
       /\ clock + d <= MaxTime
       /\ clock' = clock + d
       /\ LoopSet(LoopResult(clock + d, throwAt, renderThrows))
  /\ UNCHANGED <<isActive, torn, notLoop>>

\* The effect of the hook runs again with a new isActive: its cleanup cancels
\* the pending callback, and a new one is requested only when active.
LoopSetActive ==
  /\ ~torn
  /\ \E b \in BOOLEAN :
       LET h == IF b THEN RequestAnimationFrame(Cleanup(Host)) ELSE Cleanup(Host)
       IN /\ b # isActive
          /\ isActive' = b
          /\ requestRef' = h.current
          /\ pending' = h.pending
  /\ UNCHANGED <<clock, previousTime, lag, fpsCounter, calls, interp, fault, torn,
                 notLoop>>

\* The component that uses the hook is unmounted: the effect's cleanup runs
\* and no effect runs after it.
LoopUnmount ==
  /\ ~torn
  /\ torn' = TRUE
  /\ requestRef' = Cleanup(Host).current
  /\ pending' = Cleanup(Host).pending
  /\ UNCHANGED <<clock, previousTime, lag, fpsCounter, calls, interp, fault,
                 isActive, notLoop>>

\* reset(): the timing state is forgotten.
LoopReset ==
  /\ previousTime' = Undefined
  /\ lag' = 0
  /\ fpsCounter' = [frames |-> 0, lastTime |-> 0, fps |-> 0]
  /\ UNCHANGED <<clock, requestRef, pending, torn, fault, isActive, calls, interp,
                 notLoop>>

LoopIdle ==
  /\ clock = 0
  /\ previousTime = Undefined
  /\ lag = 0
  /\ fpsCounter = [frames |-> 0, lastTime |-> 0, fps |-> 0]
  /\ requestRef = TRUE
  /\ pending = 1
  /\ torn = FALSE
  /\ fault = NoFault
  /\ isActive = TRUE
  /\ calls = <<>>
  /\ interp = Interpolation(0)

(***************************************************************************)
(* gameLogic: collisions and the formation.                                *)
(***************************************************************************)
CheckCollisionTouching(obj1, obj2) ==
  /\ obj1.x <= obj2.x + obj2.width
  /\ obj1.x + obj1.width > obj2.x
  /\ obj1.y < obj2.y + obj2.height
  /\ obj1.y + obj1.height > obj2.y
CheckCollision(obj1, obj2) ==
  /\ obj1.x < obj2.x + obj2.width
  /\ obj1.x + obj1.width > obj2.x
  /\ obj1.y < obj2.y + obj2.height
  /\ obj1.y + obj1.height > obj2.y

ClampNoLowerBound(x, width, canvasWidth) == Min(x, canvasWidth - width)
ClampToCanvas(x, width, canvasWidth) == Max(0, Min(x, canvasWidth - width))

\* The pure functions as a state machine: a call with arguments drawn from
\* small sets leaves the function, the arguments and the result in calc.
CalcIdle == calc = [op |-> "none"]

\* Rectangles around the ones of the tests, degenerate ones included.
TestRects ==
  [x : {10, 20, 30}, y : {10, 30}, width : {0, 20}, height : {0, 20}]

CalcCheckCollision ==
  \E a \in TestRects, b \in TestRects :
    /\ calc' = [op |-> "checkCollision", a |-> a, b |-> b,
                result |-> CheckCollision(a, b)]
    /\ UNCHANGED notCalc

HitsBoundaryStrict(enemy) ==
  LET newX == enemy.x + enemy.speed * enemy.direction
  IN newX < 0 \/ newX > CanvasWidth - enemy.width
HitsBoundaryEarly(enemy) ==
  LET newX == enemy.x + enemy.speed * enemy.direction
  IN newX <= 1 \/ newX >= CanvasWidth - enemy.width - 1
HitsBoundary(enemy) ==
  LET newX == enemy.x + enemy.speed * enemy.direction
  IN newX <= 0 \/ newX >= CanvasWidth - enemy.width

\* The first pass: does any active enemy's projected x reach a boundary?
ShouldMoveDownAnyEnemy(enemies) ==
  \E i \in DOMAIN enemies : HitsBoundary(enemies[i])
ShouldMoveDown(enemies) ==
  \E i \in DOMAIN enemies : enemies[i].active /\ HitsBoundary(enemies[i])

\* The second pass, for one enemy.
MoveEnemyAlone(enemy, shouldMoveDown) ==
  IF ~enemy.active THEN enemy
  ELSE IF HitsBoundary(enemy)
       THEN [enemy EXCEPT !.direction = enemy.direction * (-1),
                          !.y = enemy.y + EnemyDropDistance]
       ELSE [enemy EXCEPT !.x = enemy.x + enemy.speed * enemy.direction]
MoveEnemy(enemy, shouldMoveDown) ==
  IF ~enemy.active THEN enemy
  ELSE IF shouldMoveDown
       THEN [enemy EXCEPT !.direction = enemy.direction * (-1),
                          !.y = enemy.y + EnemyDropDistance]
       ELSE [enemy EXCEPT !.x = enemy.x + enemy.speed * enemy.direction]

\* The result for a given outcome of the first pass.
UpdatedEnemies(enemies, shouldMoveDown) ==
  [shouldMoveDown |-> shouldMoveDown,
   enemies |-> [i \in DOMAIN enemies |-> MoveEnemy(enemies[i], shouldMoveDown)]]

UpdateEnemyPositions(enemies) ==
  UpdatedEnemies(enemies, ShouldMoveDown(enemies))

\* updateEnemyPositions called on arrays as the unit tests build them: two
\* enemies of the configured size in one row, each at any of TestXs, moving
\* either way, active or not.
TestXs == {0, 1, 2, 50, 758, 759, 760}

TestEnemy(col, x, direction, active) ==
  [x |-> x, y |-> EnemyStartY, width |-> EnemyWidth, height |-> EnemyHeight,
   speed |-> EnemySpeed, active |-> active, direction |-> direction,
   animFrame |-> 0, row |-> 0, col |-> col]

TestFormations ==
  {<<TestEnemy(0, x1, d1, a1), TestEnemy(1, x2, d2, a2)>> :
     x1 \in TestXs, x2 \in TestXs, d1 \in {1, -1}, d2 \in {1, -1},
     a1 \in BOOLEAN, a2 \in BOOLEAN}

FormationIdle ==
  /\ formation = <<>>
  /\ movedDown = FALSE
  /\ formationTicks = 0

FormationSet(r) ==
  /\ formation' = r.enemies
  /\ movedDown' = r.shouldMoveDown
  /\ formationTicks' = formationTicks + 1

\* One call on a test array.
FormationUpdate ==
  /\ formationTicks < MaxUnitTicks
  /\ FormationSet(UpdateEnemyPositions(formation))
  /\ UNCHANGED notForm

\* One call on the grid of a level, as updateGameObjects makes every tick.
GridTick ==
  /\ formationTicks < MaxGridTicks
  /\ FormationSet(UpdateEnemyPositions(formation))
  /\ UNCHANGED notForm

\* handleCollisions deactivates an enemy a bullet has hit.  The hits of the
\* model fall on the rightmost column, before the first tick or when that
\* column stands one step short of the right boundary.
GridVictims == {i \in 1..(EnemyRows * EnemyCols) : i % EnemyCols = 0}

HitTicks ==
  {0, CanvasWidth - EnemyWidth - 1
        - (EnemyStartX + (EnemyCols - 1) * (EnemyWidth + EnemySpacingH))}

GridHit ==
  /\ formationTicks \in HitTicks
  /\ \E i \in GridVictims :
       /\ formation[i].active
       /\ formation' = [formation EXCEPT ![i].active = FALSE]
  /\ UNCHANGED <<movedDown, formationTicks, notForm>>

\* A pooled bullet as the Bullet the game logic sees.
BulletBox(b) == [x |-> b.x, y |-> b.y, width |-> BulletWidth, height |-> BulletHeight]

\* checkBulletEnemyCollisions: the (bullet index, enemy index) pairs pushed
\* on hitBullets and hitEnemies; the score is pointsPerEnemy per pair.
CheckBulletEnemyCollisions(bullets, enemies) ==
  LET pairs == {h \in (DOMAIN bullets) \X (DOMAIN enemies) :
                  /\ bullets[h[1]].active
                  /\ enemies[h[2]].active
                  /\ CheckCollision(BulletBox(bullets[h[1]]), enemies[h[2]])}
  IN [hitBullets |-> {h[1] : h \in pairs},
      hitEnemies |-> {h[2] : h \in pairs},
      score |-> PointsPerEnemy * Cardinality(pairs)]

CheckEnemyPlayerCollision(enemies, player) ==
  \E i \in DOMAIN enemies :
    /\ enemies[i].active
    /\ enemies[i].y + enemies[i].height >= player.y
    /\ CheckCollision(enemies[i], player)

IsLevelComplete(enemies) == \A i \in DOMAIN enemies : ~enemies[i].active

AllowedKeys ==
  {"ArrowLeft", "ArrowRight", "ArrowUp", "ArrowDown", " ", "Enter", "Escape",
   "p", "P", "Pause", "Space"}

ValidateAnyKey(key) == TRUE
ValidateInput(key) == key \in AllowedKeys

(***************************************************************************)
(* useKeyboard: the input latch.                                           *)
(***************************************************************************)
NormalizeKey(eKey) == IF eKey = " " THEN "Space" ELSE eKey

KeyboardEmpty ==
  [keys |-> {}, justPressed |-> {}, justReleased |-> {}, previousKeys |-> {}]

\* updateKeyStates(), once per animation frame
UpdateKeyStatesKeepsSnapshot(k) ==
  [k EXCEPT !.justPressed = k.keys \ k.previousKeys,
            !.justReleased = k.previousKeys \ k.keys]
UpdateKeyStates(k) ==
  [k EXCEPT !.justPressed = k.keys \ k.previousKeys,
            !.justReleased = k.previousKeys \ k.keys,
            !.previousKeys = k.keys]

HandleKeyDown(k, eKey) ==
  LET key == NormalizeKey(eKey) IN
  IF ~ValidateInput(key) /\ ~ValidateInput(eKey) THEN k
  ELSE [k EXCEPT !.keys = @ \cup {key, eKey}]

HandleKeyUp(k, eKey) ==
  LET key == NormalizeKey(eKey) IN
  IF ~ValidateInput(key) /\ ~ValidateInput(eKey) THEN k
  ELSE [k EXCEPT !.keys = @ \ {key, eKey}]

HandleBlurKeepsSnapshot(k) == [KeyboardEmpty EXCEPT !.previousKeys = k.previousKeys]
HandleBlur(k) == KeyboardEmpty

AltKey(key) == IF key = "Space" THEN " " ELSE key

IsPressed(k, key) == key \in k.keys \/ AltKey(key) \in k.keys

WasJustPressed(k, key) == key \in k.justPressed \/ AltKey(key) \in k.justPressed

WasJustReleased(k, key) == key \in k.justReleased \/ AltKey(key) \in k.justReleased

\* reset()
KeyboardReset(k) == KeyboardEmpty

\* handleVisibilityChange: the latch is cleared only when the document is hidden.
HandleVisibilityChange(k, hidden) == IF hidden THEN HandleBlur(k) ELSE k

(***************************************************************************)
(* The latch as a state machine: the document's and window's events and    *)
(* the animation frame, with a history of the events since the last frame. *)
(***************************************************************************)
\* The e.key values of the events: space (stored under two names), Enter,
\* and a key that is not allowed.
KbKeys == {" ", "Enter", "a"}

\* The history kept beside the latch:
\*   event      the last event and its key;
\*   fresh      keys whose key-down arrived, while not held, since the last
\*              frame update, and that have not been released since;
\*   released   keys held at the last frame update whose key-up arrived since;
\*   sinceBlur  keys whose key-down arrived since the latch was last cleared;
\*   lost       keys that were held when the latch was last cleared.
KeyLogEmpty ==
  [event |-> <<"new">>, fresh |-> {}, released |-> {}, sinceBlur |-> {}, lost |-> {}]

KeyLogCleared(event) ==
  [KeyLogEmpty EXCEPT !.event = event, !.lost = {k \in KbKeys : k \in kb.keys}]

KbKeyDown ==
  \E eKey \in KbKeys :
    /\ kb' = HandleKeyDown(kb, eKey)
    /\ keyLog' = [keyLog EXCEPT
                    !.event = <<"keydown", eKey>>,
                    !.fresh = IF eKey \in kb.keys THEN @ ELSE @ \cup {eKey},
                    !.sinceBlur = @ \cup {eKey}]
    /\ UNCHANGED notKb

KbKeyUp ==
  \E eKey \in KbKeys :
    /\ kb' = HandleKeyUp(kb, eKey)
    /\ keyLog' = [keyLog EXCEPT
                    !.event = <<"keyup", eKey>>,
                    !.fresh = @ \ {eKey},
                    !.released = IF eKey \in kb.keys /\ eKey \notin keyLog.fresh
                                 THEN @ \cup {eKey} ELSE @]
    /\ UNCHANGED notKb

KbBlur ==
  /\ kb' = HandleBlur(kb)
  /\ keyLog' = KeyLogCleared(<<"blur">>)
  /\ UNCHANGED notKb

KbVisibilityChange ==
  \E hidden \in BOOLEAN :
    /\ kb' = HandleVisibilityChange(kb, hidden)
    /\ keyLog' = IF hidden THEN KeyLogCleared(<<"hidden">>)
                  ELSE [keyLog EXCEPT !.event = <<"visible">>]
    /\ UNCHANGED notKb

\* The component calls the latch's reset().
KbReset ==
  /\ kb' = KeyboardReset(kb)
  /\ keyLog' = KeyLogCleared(<<"reset">>)
  /\ UNCHANGED notKb

\* The animation frame runs updateKeyStates.
KbFrame ==
  /\ kb' = UpdateKeyStates(kb)
  /\ keyLog' = [keyLog EXCEPT !.event = <<"frame">>, !.fresh = {}, !.released = {}]
  /\ UNCHANGED notKb

(***************************************************************************)
(* PerformanceMonitor (the history of frame times, which only feeds        *)
(* console warnings, is left out).                                         *)
(***************************************************************************)
PerfNew == [frameCount |-> 0, lastTime |-> 0, fps |-> 0, frameTime |-> 0]

PerfUpdate(pf, currentTime) ==
  LET frameCount == pf.frameCount + 1
      frameTime == IF pf.lastTime > 0 THEN currentTime - pf.lastTime ELSE pf.frameTime
      second == currentTime - pf.lastTime >= FpsWindow
  IN [frameCount |-> IF second THEN 0 ELSE frameCount,
      lastTime |-> currentTime,
      fps |-> IF second THEN frameCount ELSE pf.fps,
      frameTime |-> frameTime]

(***************************************************************************)
(* The SpaceInvadersGame component.  A world w is the manager, the two     *)
(* pools and the performance monitor; the steps of updateGame are          *)
(* functions of it.                                                        *)
(***************************************************************************)
\* A pool's active instances that report active are changed in place.
PoolForEachActive(p) ==
  [p EXCEPT !.active =
     [i \in 1..Len(@) |-> IF ObjIsActive(p.kind, @[i])
                          THEN ObjUpdate(p.kind, @[i]) ELSE @[i]]]

\* n times: particlePool.get(), and init on the instance when there is one.
SpawnOne(r, color) ==
  IF r.ok THEN PoolPut(r.p, ParticleInit(r.obj, color)) ELSE r.p

RECURSIVE SpawnParticles(_, _, _)
SpawnParticles(pp, n, color) ==
  IF n = 0 THEN pp
  ELSE SpawnParticles(SpawnOne(PoolGet(pp), color), n - 1, color)

\* startGame of the component: the manager's startGame, then both pools'
\* releaseAll.
StartAndClear(w) ==
  [w EXCEPT !.m = StartGame(w.m),
            !.bullets = PoolReleaseAll(w.bullets),
            !.particles = PoolReleaseAll(w.particles)]

\* The pause keys toggle between playing and paused.
TogglePause(m, phase) ==
  IF phase = "playing" THEN PauseGame(m)
  ELSE IF phase = "paused" THEN ResumeGame(m)
  ELSE m

\* The guard of the shot taken in handleInput.
MayShoot(w) == CanShoot(w.m)

\* handleInput(gameStateManager, audioManager), step by step; cs is the
\* currentState read at its start.
InputEnter(w, k, cs) ==
  IF WasJustPressed(k, "Enter") /\ cs.phase \in {"start", "gameOver"}
  THEN StartAndClear(w) ELSE w

InputPause(w, k, cs) ==
  IF WasJustPressed(k, "p") \/ WasJustPressed(k, "P") \/ WasJustPressed(k, "Escape")
  THEN [w EXCEPT !.m = TogglePause(w.m, cs.phase)] ELSE w

NewPlayerX(k, cs) ==
  ClampToCanvas(
    cs.player.x - (IF IsPressed(k, "ArrowLeft") THEN cs.player.speed ELSE 0)
                + (IF IsPressed(k, "ArrowRight") THEN cs.player.speed ELSE 0),
    cs.player.width, CanvasWidth)

InputMove(w, k, cs) ==
  IF NewPlayerX(k, cs) # cs.player.x
  THEN [w EXCEPT !.m = UpdateState(w.m,
          [player |-> [cs.player EXCEPT !.x = NewPlayerX(k, cs)]])]
  ELSE w

\* bulletPool.get(), and init on the bullet when there is one.
TakeShot(w, r, cs) ==
  IF r.ok
  THEN [w EXCEPT !.bullets =
          PoolPut(r.p,
            BulletInit(r.obj,
              cs.player.x + cs.player.width \div 2 - BulletWidth \div 2,
              cs.player.y))]
  ELSE [w EXCEPT !.bullets = r.p]

InputShoot(w, k, cs) ==
  IF (WasJustPressed(k, " ") \/ WasJustPressed(k, "Space")) /\ MayShoot(w)
  THEN TakeShot(w, PoolGet(w.bullets), cs)
  ELSE w

InputPlay(w, k, cs) ==
  IF ~IsPlaying(w.m) THEN w ELSE InputShoot(InputMove(w, k, cs), k, cs)

HandleInput(w, k) ==
  InputPlay(InputPause(InputEnter(w, k, w.m.state), k, w.m.state), k, w.m.state)

\* Math.floor(Date.now() / animationSpeed) % 2, with Date.now() read off the
\* frame clock.
AnimFrame(now) == (now \div EnemyAnimationSpeed) % 2

\* updateGameObjects(gameStateManager)
WithAnimFrame(enemies, animFrame) ==
  [i \in DOMAIN enemies |-> [enemies[i] EXCEPT !.animFrame = animFrame]]

UpdateGameObjects(w, now) ==
  [w EXCEPT
     !.bullets = PoolForEachActive(w.bullets),
     !.particles = PoolForEachActive(w.particles),
     !.m = UpdateState(w.m,
             [enemies |-> WithAnimFrame(UpdateEnemyPositions(w.m.state.enemies).enemies,
                                        AnimFrame(now))])]

\* handleCollisions(gameStateManager, audioManager), step by step; cs is the
\* currentState and activeBullets the bulletPool.getActive() read at its
\* start.
Deactivated(objs, ids) ==
  [i \in DOMAIN objs |-> IF i \in ids THEN [objs[i] EXCEPT !.active = FALSE] ELSE objs[i]]

ApplyHits(w, cs, activeBullets, hits) ==
  IF hits.hitBullets # {}
  THEN [w EXCEPT
          !.bullets = [@ EXCEPT !.active =
             Deactivated(@, {i \in DOMAIN @ :
                               @[i].id \in {activeBullets[j].id : j \in hits.hitBullets}})],
          !.particles = SpawnParticles(@,
             ParticleCount * Cardinality(hits.hitEnemies), "#ff0000"),
          !.m = AddScore(UpdateState(w.m,
                           [enemies |-> Deactivated(cs.enemies, hits.hitEnemies)]),
                         hits.score)]
  ELSE w

CollideBullets(w, cs, activeBullets) ==
  ApplyHits(w, cs, activeBullets, CheckBulletEnemyCollisions(activeBullets, cs.enemies))

CollideLevel(w, cs) ==
  IF IsLevelComplete(cs.enemies) THEN [w EXCEPT !.m = NextLevel(w.m)] ELSE w

CollidePlayer(w, cs) ==
  IF CheckEnemyPlayerCollision(cs.enemies, cs.player)
  THEN [w EXCEPT !.particles = SpawnParticles(@, ParticleCount, "#00ff00"),
                 !.m = LoseLife(w.m)]
  ELSE w

HandleCollisions(w) ==
  CollidePlayer(
    CollideLevel(
      CollideBullets(w, w.m.state, PoolGetActive(w.bullets)),
      w.m.state),
    w.m.state)

\* updateGame(deltaTime, currentTime): one simulation tick.
PoolsUpdated(w) ==
  [w EXCEPT !.bullets = PoolUpdate(@),
            !.particles = PoolUpdate(@)]

MonitorUpdated(w, pf) == [w EXCEPT !.perf = pf, !.m = UpdateFPS(w.m, pf.fps)]

UpdateGame(w, k, currentTime) ==
  IF ~IsPlaying(w.m) THEN w
  ELSE PoolsUpdated(
         HandleCollisions(
           UpdateGameObjects(
             HandleInput(MonitorUpdated(w, PerfUpdate(w.perf, currentTime)), k),
             currentTime)))

\* n ticks of the same frame: the same latch and the same timestamp.
RECURSIVE UpdateTimes(_, _, _, _)
UpdateTimes(w, k, currentTime, n) ==
  IF n = 0 THEN w
  ELSE UpdateTimes(UpdateGame(w, k, currentTime), k, currentTime, n - 1)

World ==
  [m |-> Manager, bullets |-> bulletPool, particles |-> particlePool, perf |-> perf]

WorldSet(op, w) ==
  /\ GsmSet(op, w.m)
  /\ bulletPool' = w.bullets
  /\ particlePool' = w.particles
  /\ perf' = w.perf

GameIdle ==
  /\ kb = KeyboardEmpty
  /\ keyLog = KeyLogEmpty
  /\ bulletPool = PoolNew("bullet", BulletPoolInitial, BulletPoolMax)
  /\ particlePool = PoolNew("particle", ParticlePoolInitial, ParticlePoolMax)
  /\ perf = PerfNew

\* A simulation tick made on the manager outside any frame: updateGame with
\* no key held, at the current frame time.
GsmTick ==
  /\ perf.frameCount < MaxTicks
  /\ WorldSet("tick", UpdateGame(World, kb, clock))
  /\ UNCHANGED <<kb, keyLog, loopVars, poolVars, formVars, calcVars>>

\* The keys the player uses in the model.
GameKeys == {" ", "Enter"}

\* handleGlobalKeyDown: Enter starts or restarts, P and Escape toggle pause.
GlobalEnter(w, eKey, phase) ==
  IF eKey = "Enter" /\ phase \in {"start", "gameOver"} THEN StartAndClear(w) ELSE w

GlobalPause(w, eKey, phase) ==
  IF eKey \in {"p", "P", "Escape"}
  THEN [w EXCEPT !.m = TogglePause(w.m, phase)] ELSE w

HandleGlobalKeyDown(w, eKey) ==
  GlobalPause(GlobalEnter(w, eKey, w.m.state.phase), eKey, w.m.state.phase)

\* A keydown event on the document: the latch's handler (capture phase),
\* then the component's global handler.
GameKeyDown(keys) ==
  \E eKey \in keys :
    /\ kb' = HandleKeyDown(kb, eKey)
    /\ WorldSet("keydown", HandleGlobalKeyDown(World, eKey))
    /\ UNCHANGED <<keyLog, loopVars, poolVars, formVars, calcVars>>

GameKeyUp(keys) ==
  \E eKey \in keys :
    /\ eKey \in kb.keys
    /\ kb' = HandleKeyUp(kb, eKey)
    /\ lastOp' = "keyup"
    /\ log' = <<>>
    /\ emitted' = <<>>
    /\ UNCHANGED <<state, listeners, eventHandlers, bulletPool, particlePool, perf,
                   keyLog, loopVars, poolVars, formVars, calcVars>>

\* One animation frame: the host runs the latch's updateKeyStates and then
\* the scheduler's gameLoop, in the order they were requested.
GameFrame ==
  /\ pending > 0
  /\ \E d \in {TargetFrameTime, MaxUpdates * TargetFrameTime} :
       LET currentTime == clock + d
           k == UpdateKeyStates(kb)
           r == LoopResult(currentTime, 0, FALSE)
       IN /\ currentTime <= MaxGameTime
          /\ clock' = currentTime
          /\ kb' = k
          /\ LoopSet(r)
          /\ WorldSet("frame", UpdateTimes(World, k, currentTime, r.updateCount))
  /\ UNCHANGED <<isActive, torn, keyLog, poolVars, formVars, calcVars>>

(***************************************************************************)
(* The specifications: one per component, each driving that component      *)
(* while the others rest in their initial state.                           *)
(***************************************************************************)
LoopInit == LoopIdle /\ PoolIdle /\ GsmIdle /\ GameIdle /\ FormationIdle /\ CalcIdle

LoopNext ==
  \/ LoopFrame
  \/ LoopSetActive
  \/ LoopReset
  \/ LoopUnmount

SpecLoop == LoopInit /\ [][LoopNext]_vars

PoolInit ==
  /\ \E n \in 0..MaxPoolSize : \E i \in 0..n : tpool = PoolNew("bullet", i, n)
  /\ lastGet = [ok |-> FALSE, id |-> 0]
  /\ poolOp = "new"
  /\ lastCall = [arg |-> 0, reclaimed |-> 0]
  /\ LoopIdle
  /\ GsmIdle
  /\ GameIdle
  /\ CalcIdle
  /\ FormationIdle

PoolNext ==
  \/ TGet
  \/ TRelease
  \/ TReleaseAll
  \/ TUpdate
  \/ TBulletInit
  \/ TBulletUpdate
  \/ TBulletHit

SpecPool == PoolInit /\ [][PoolNext]_vars

GsmInit == GsmIdle /\ LoopIdle /\ PoolIdle /\ GameIdle /\ FormationIdle /\ CalcIdle

GsmNext ==
  \/ GsmStartGame
  \/ GsmPauseGame
  \/ GsmResumeGame
  \/ GsmLoseLife
  \/ GsmNextLevel
  \/ GsmAddScore({PointsPerEnemy, 2 * PointsPerEnemy})
  \/ GsmReset
  \/ GsmSubscribe({"a"})
  \/ GsmUnsubscribe
  \/ GsmAddEventListener({"gameOver"}, {"a"})
  \/ GsmRemoveEventListener
  \/ GsmTick

SpecGSM == GsmInit /\ [][GsmNext]_vars

\* The game in play with the player at, next to and away from the edges of
\* the canvas (the positions a player moving by its speed from the start
\* position reaches), the arrow keys, and the manager's respawning calls.
MoveKeys == {"ArrowLeft", "ArrowRight"}

MoveInit ==
  /\ \E x \in {0, PlayerSpeed, CreatePlayer.x,
                CanvasWidth - PlayerWidth - PlayerSpeed, CanvasWidth - PlayerWidth} :
       state = [CreateInitialState EXCEPT !.phase = "playing",
                                          !.enemies = CreateEnemyGrid,
                                          !.player.x = x]
  /\ listeners = <<"a">>
  /\ eventHandlers = [t \in EventTypes |-> <<>>]
  /\ log = <<>>
  /\ emitted = <<>>
  /\ lastOp = "new"
  /\ LoopIdle
  /\ PoolIdle
  /\ GameIdle
  /\ CalcIdle
  /\ FormationIdle

MoveNext ==
  \/ GameKeyDown(MoveKeys)
  \/ GameKeyUp(MoveKeys)
  \/ GsmTick
  \/ GsmLoseLife
  \/ GsmNextLevel
  \/ GsmStartGame

SpecMove == MoveInit /\ [][MoveNext]_vars

\* checkCollision applied to pairs of rectangles.
CollisionInit == LoopIdle /\ PoolIdle /\ GsmIdle /\ GameIdle /\ FormationIdle /\ CalcIdle

CollisionNext == CalcCheckCollision

SpecCollision == CollisionInit /\ [][CollisionNext]_vars

\* The input latch under every sequence of its events.
KeyboardInit == LoopIdle /\ PoolIdle /\ GsmIdle /\ GameIdle /\ FormationIdle /\ CalcIdle

KeyboardNext ==
  \/ KbKeyDown
  \/ KbKeyUp
  \/ KbBlur
  \/ KbVisibilityChange
  \/ KbReset
  \/ KbFrame

SpecKeyboard == KeyboardInit /\ [][KeyboardNext]_vars

\* The manager with a client that calls addScore with any number, as its
\* signature addScore(points: number) allows.
ScorePoints == {0 - PointsPerEnemy, PointsPerEnemy, 2 * PointsPerEnemy}

ScoreNext ==
  \/ GsmStartGame
  \/ GsmPauseGame
  \/ GsmResumeGame
  \/ GsmLoseLife
  \/ GsmNextLevel
  \/ GsmAddScore(ScorePoints)
  \/ GsmReset
  \/ GsmTick

SpecScore == GsmInit /\ [][ScoreNext]_vars

\* The manager with clients whose listeners and handlers throw, unsubscribe
\* themselves or subscribe others while they are being called.
DispatchNext ==
  \/ GsmStartGame
  \/ GsmPauseGame
  \/ GsmResumeGame
  \/ GsmSubscribe(ListenerIds \ {"b"})
  \/ GsmUnsubscribe
  \/ GsmAddEventListener({"paused"}, {"a", "thrower", "once"})
  \/ GsmRemoveEventListener

SpecDispatch == GsmInit /\ [][DispatchNext]_vars

\* The game as it runs in the page: key events and animation frames.  The
\* component has subscribed its one state listener.
GameInit ==
  /\ LoopIdle
  /\ PoolIdle
  /\ GameIdle
  /\ CalcIdle
  /\ FormationIdle
  /\ state = CreateInitialState
  /\ listeners = <<"a">>
  /\ eventHandlers = [t \in EventTypes |-> <<>>]
  /\ log = <<>>
  /\ emitted = <<>>
  /\ lastOp = "new"

GameNext ==
  \/ GameKeyDown(GameKeys)
  \/ GameKeyUp(GameKeys)
  \/ GameFrame

SpecGame == GameInit /\ [][GameNext]_vars

\* The manager in the middle of a game: the player has moved, the formation
\* has advanced or lost an enemy, lives have been lost.
Shifted(enemies, dx, dy) ==
  [i \in DOMAIN enemies |-> [enemies[i] EXCEPT !.x = @ + dx, !.y = @ + dy]]

MidGameStates ==
  {[CreateInitialState EXCEPT
      !.phase = ph, !.lives = lives, !.score = sc.score, !.enemies = sc.enemies,
      !.player = [CreatePlayer EXCEPT !.x = x]] :
     ph \in {"playing", "paused"},
     lives \in 1..InitialLives,
     x \in {0, CreatePlayer.x - PlayerSpeed, CreatePlayer.x},
     sc \in {[score |-> 0, enemies |-> Shifted(CreateEnemyGrid, EnemySpeed, 0)],
             [score |-> PointsPerEnemy,
              enemies |-> Shifted(CreateEnemyGrid, EnemySpeed, 0)],
             [score |-> PointsPerEnemy,
              enemies |-> [CreateEnemyGrid EXCEPT ![1].active = FALSE]]}}

MidGameInit ==
  /\ state \in MidGameStates
  /\ listeners \in {<<>>, <<"thrower", "a">>}
  /\ eventHandlers = [t \in EventTypes |-> <<>>]
  /\ log = <<>>
  /\ emitted = <<>>
  /\ lastOp = "new"
  /\ LoopIdle
  /\ PoolIdle
  /\ GameIdle
  /\ CalcIdle
  /\ FormationIdle

MidGameNext ==
  \/ GsmLoseLife
  \/ GsmNextLevel
  \/ GsmPauseGame
  \/ GsmResumeGame
  \/ GsmStartGame

SpecMidGame == MidGameInit /\ [][MidGameNext]_vars

\* The game as it runs in the page when the formation, with no enemy shot,
\* has come down to the player's height: it has dropped InvasionDrops times
\* and stands two steps short of the right boundary, moving right.  The
\* player is at the start position or one step to its left.
InvasionDrops ==
  (PlayerStartY - (CreateEnemyGrid[EnemyRows * EnemyCols].y + EnemyHeight))
    \div EnemyDropDistance

InvasionGrid ==
  Shifted(CreateEnemyGrid,
          CanvasWidth - EnemyWidth - 2 * EnemySpeed - CreateEnemyGrid[EnemyCols].x,
          InvasionDrops * EnemyDropDistance)

InvasionInit ==
  /\ \E x \in {CreatePlayer.x, CreatePlayer.x - PlayerSpeed} :
       state = [CreateInitialState EXCEPT !.phase = "playing",
                                          !.enemies = InvasionGrid,
                                          !.player.x = x]
  /\ listeners = <<"a">>
  /\ eventHandlers = [t \in EventTypes |-> <<>>]
  /\ log = <<>>
  /\ emitted = <<>>
  /\ lastOp = "new"
  /\ LoopIdle
  /\ PoolIdle
  /\ GameIdle
  /\ CalcIdle
  /\ FormationIdle

SpecInvasion == InvasionInit /\ [][GameNext]_vars

\* The end of a level: the formation is two steps short of the right
\* boundary, one drop or two drops away from the player's row, and only its
\* bottom right enemy is left; the player is below it, at the right edge,
\* or at the start position.
LastEnemyGrid(dropsToGo) ==
  [i \in DOMAIN InvasionGrid |->
     [InvasionGrid[i] EXCEPT !.active = (i = EnemyRows * EnemyCols),
                             !.y = @ - (dropsToGo - 1) * EnemyDropDistance]]

LastEnemyInit ==
  /\ \E x \in {CreatePlayer.x, CanvasWidth - PlayerWidth}, dropsToGo \in {1, 2} :
       state = [CreateInitialState EXCEPT
                  !.phase = "playing",
                  !.score = PointsPerEnemy * (EnemyRows * EnemyCols - 1),
                  !.enemies = LastEnemyGrid(dropsToGo),
                  !.player.x = x]
  /\ listeners = <<"a">>
  /\ eventHandlers = [t \in EventTypes |-> <<>>]
  /\ log = <<>>
  /\ emitted = <<>>
  /\ lastOp = "new"
  /\ LoopIdle
  /\ PoolIdle
  /\ GameIdle
  /\ CalcIdle
  /\ FormationIdle

SpecLastEnemy == LastEnemyInit /\ [][GameNext]_vars

(***************************************************************************)
(***************************************************************************)
(* The pause keys: a game in play or paused, the player pressing and       *)
(* releasing P and Escape between animation frames.                        *)
(***************************************************************************)
PauseKeys == {"p", "Escape"}

PauseInit ==
  /\ \E phase \in {"playing", "paused"} :
       state = [CreateInitialState EXCEPT !.phase = phase]
  /\ listeners = <<"a">>
  /\ eventHandlers = [t \in EventTypes |-> <<>>]
  /\ log = <<>>
  /\ emitted = <<>>
  /\ lastOp = "new"
  /\ LoopIdle
  /\ PoolIdle
  /\ GameIdle
  /\ CalcIdle
  /\ FormationIdle

PauseNext ==
  \/ GameKeyDown(PauseKeys)
  \/ GameKeyUp(PauseKeys)
  \/ GameFrame

SpecPause == PauseInit /\ [][PauseNext]_vars

(***************************************************************************)
(* The game in any phase: the player shoots and pauses while animation     *)
(* frames go by, before the start, in play, paused and after the end.      *)
(***************************************************************************)
AnyPhaseKeys == {" ", "p"}

AnyPhaseInit ==
  /\ \E phase \in {"start", "playing", "paused", "gameOver"} :
       state = [CreateInitialState EXCEPT !.phase = phase]
  /\ listeners = <<"a">>
  /\ eventHandlers = [t \in EventTypes |-> <<>>]
  /\ log = <<>>
  /\ emitted = <<>>
  /\ lastOp = "new"
  /\ LoopIdle
  /\ PoolIdle
  /\ GameIdle
  /\ CalcIdle
  /\ FormationIdle

AnyPhaseNext ==
  \/ GameKeyDown(AnyPhaseKeys)
  \/ GameKeyUp(AnyPhaseKeys)
  \/ GameFrame

SpecAnyPhase == AnyPhaseInit /\ [][AnyPhaseNext]_vars

(***************************************************************************)
(* A PerformanceMonitor driven as its tests drive it: update(currentTime)  *)
(* at a steady interval, 16.67 ms or 50 ms, from time 0 or from a page     *)
(* that has been open for a while.  calc records the interval, the time of *)
(* the first call and the number of calls made.                            *)
(***************************************************************************)
\* 50 ms, the frame time of the 20 fps test.
SlowFrameTime == 5000

MonitorIntervals == {TargetFrameTime, SlowFrameTime}

MonitorStarts == {0, FpsWindow + TargetFrameTime}

MonitorInit ==
  /\ \E d \in MonitorIntervals, t \in MonitorStarts :
       calc = [op |-> "monitor", interval |-> d, start |-> t, updates |-> 0]
  /\ LoopIdle
  /\ PoolIdle
  /\ GsmIdle
  /\ GameIdle
  /\ FormationIdle

MonitorUpdate ==
  /\ calc.updates < MaxMonitorCalls
  /\ perf' = PerfUpdate(perf, calc.start + calc.updates * calc.interval)
  /\ calc' = [calc EXCEPT !.updates = @ + 1]
  /\ UNCHANGED <<kb, keyLog, bulletPool, particlePool,
                 loopVars, poolVars, gsmVars, formVars>>

MonitorNext == MonitorUpdate

SpecMonitor == MonitorInit /\ [][MonitorNext]_vars

(* The life of pooled instances over the ticks of a game in play.  A tick  *)
(* is taken with what the rest of the game feeds the pools: whether a shot *)
(* is taken in handleInput, which bullets handleCollisions finds to have   *)
(* hit, and how many particles it spawns.  At most MaxInFlight shots and   *)
(* bursts of particles are under way at once.                              *)
(***************************************************************************)
InFlight(w) ==
  Len(w.bullets.active) + (Len(w.particles.active) + ParticleCount - 1) \div ParticleCount

PoolTick(w, shoot, hitIds, spawned) ==
  LET shot == IF shoot THEN TakeShot(w, PoolGet(w.bullets), w.m.state) ELSE w
      moved == [shot EXCEPT !.bullets = PoolForEachActive(@),
                            !.particles = PoolForEachActive(@)]
      collided == [moved EXCEPT
                     !.bullets = [@ EXCEPT !.active =
                        Deactivated(@, {i \in DOMAIN @ : @[i].id \in hitIds})],
                     !.particles = SpawnParticles(@, spawned, "#ff0000")]
  IN PoolsUpdated(collided)

ReclaimTick ==
  /\ IsPlaying(Manager)
  /\ \E shoot \in BOOLEAN, spawned \in {0, ParticleCount} :
       \E hitIds \in SUBSET ActiveIds(bulletPool) :
         /\ (shoot \/ spawned > 0) => InFlight(World) < MaxInFlight
         /\ ~(shoot /\ spawned > 0)
         /\ shoot => MayShoot(World)
         /\ LET w == PoolTick(World, shoot, hitIds, spawned)
            IN /\ bulletPool' = w.bullets
               /\ particlePool' = w.particles
  /\ UNCHANGED <<kb, keyLog, perf, gsmVars, loopVars, poolVars, formVars, calcVars>>

ReclaimInit ==
  /\ state = [CreateInitialState EXCEPT !.phase = "playing"]
  /\ listeners = <<>>
  /\ eventHandlers = [t \in EventTypes |-> <<>>]
  /\ log = <<>>
  /\ emitted = <<>>
  /\ lastOp = "new"
  /\ LoopIdle
  /\ PoolIdle
  /\ GameIdle
  /\ CalcIdle
  /\ FormationIdle

ReclaimNext == ReclaimTick

\* A tick in which no shot is taken, nothing is hit and nothing is spawned.
QuietTick ==
  /\ IsPlaying(Manager)
  /\ bulletPool' = PoolTick(World, FALSE, {}, 0).bullets
  /\ particlePool' = PoolTick(World, FALSE, {}, 0).particles
  /\ UNCHANGED <<kb, keyLog, perf, gsmVars, loopVars, poolVars, formVars, calcVars>>

\* A tick changes the pools exactly when an instance is out.
SomeOut == bulletPool.active # <<>> \/ particlePool.active # <<>>

\* The ticks continue: the scheduler keeps calling updateGame, whatever the
\* player does.  This is WF_vars(QuietTick) with ENABLED <<QuietTick>>_vars
\* written out as SomeOut.
TicksContinue == []<><<QuietTick>>_vars \/ []<>(~SomeOut)

SpecReclaim == ReclaimInit /\ [][ReclaimNext]_vars /\ TicksContinue

\* updateEnemyPositions as a function of its argument.
FormationInit ==
  /\ formation \in TestFormations
  /\ movedDown = FALSE
  /\ formationTicks = 0
  /\ LoopIdle
  /\ PoolIdle
  /\ GsmIdle
  /\ GameIdle
  /\ CalcIdle

FormationNext == FormationUpdate

SpecFormation == FormationInit /\ [][FormationNext]_vars

\* The formation of one level: a fresh grid, advanced tick by tick while
\* enemies of it are shot.
GridInit ==
  /\ formation = CreateEnemyGrid
  /\ movedDown = FALSE
  /\ formationTicks = 0
  /\ LoopIdle
  /\ PoolIdle
  /\ GsmIdle
  /\ GameIdle
  /\ CalcIdle

GridNext ==
  \/ GridTick
  \/ GridHit

SpecGrid == GridInit /\ [][GridNext]_vars

(***************************************************************************)
(* The game's claims, checked under SpecGame.                              *)
(***************************************************************************)

\* C1: after any sequence of simulation ticks and shoot-key presses, the
\* number of active bullets in the bullet pool never exceeds 5.
C1_AtMostFiveBullets ==
  Len(PoolGetActive(bulletPool)) <= 5

(***************************************************************************)
(* The scheduler's claims, checked under SpecLoop.                         *)
(***************************************************************************)

\* C2: in every frame callback of the active scheduler at most 5 Update
\* calls are made, all of them before the Render call, and exactly one
\* Render call is made: the callbacks of a frame are "update" at most five
\* times and then "render" once, with nothing after it.
C2_UpdatesThenOneRender ==
  \/ calls = <<>> /\ previousTime = Undefined
  \/ /\ calls # <<>>
     /\ Len(calls) - 1 <= 5
     /\ calls[Len(calls)] = "render"
     /\ \A i \in 1..(Len(calls) - 1) : calls[i] = "update"

\* A frame callback that ran into the cap: five updates, then the render.
C2_Witness == calls = <<"update", "update", "update", "update", "update", "render">>

\* C3: after a frame callback the accumulator holds less than one tick: the
\* lag beyond the five catch-up updates is dropped, not queued.
C3_ExcessLagDropped == lag < TargetFrameTime

\* C4: the interpolation value passed to Render is in [0,1).
C4_InterpolationInUnitInterval ==
  /\ 0 <= interp.num
  /\ interp.num < interp.den

(***************************************************************************)
(* The state machine's claims, checked under SpecGSM and SpecDispatch.     *)
(***************************************************************************)

\* C5: loseLife with lives = 1 moves the phase to gameOver, and the phase
\* leaves gameOver only by startGame or reset: no pauseGame, resumeGame,
\* loseLife, nextLevel, addScore or simulation tick changes it.
C5_GameOverIrreversible ==
  [][/\ (lastOp' = "loseLife" /\ state.lives = 1) => state'.phase = "gameOver"
     /\ (state.phase = "gameOver" /\ state'.phase # "gameOver")
          => lastOp' \in {"startGame", "reset"}]_vars

\* resumeGame has been called after the last life was lost, and the phase
\* is still gameOver.
C5_Witness ==
  /\ lastOp = "resumeGame"
  /\ state.phase = "gameOver"
  /\ state.lives = 0

\* The calls of the handlers registered for an event type, and of a
\* listener or handler, made by the last operation.
EventCalls(l, type) == {i \in DOMAIN l : l[i].ch = "event" /\ l[i].type = type}
ListenerCalls(l, id) == {i \in DOMAIN l : l[i].ch = "listener" /\ l[i].id = id}
HandlerCalls(l, type, id) == {i \in EventCalls(l, type) : l[i].id = id}
Occurrences(arr, id) == {i \in DOMAIN arr : arr[i] = id}

\* C6: when loseLife takes the last life, a handler registered with
\* addEventListener('gameOver') is invoked exactly once.
C6_GameOverHandlerOnce ==
  [][(lastOp' = "loseLife" /\ state.lives = 1
        /\ eventHandlers["gameOver"] = <<"a">>)
       => Cardinality(EventCalls(log', "gameOver")) = 1]_vars

\* C7: every operation that changes the phase emits a phase-change event
\* carrying the previous and the current phase.
C7_PhaseChangeEmitted ==
  [][state'.phase # state.phase
       => \E i \in DOMAIN emitted' :
            /\ emitted'[i].type = state'.phase
            /\ emitted'[i].data = [previousPhase |-> state.phase,
                                   currentPhase |-> state'.phase]]_vars

\* C8: when a listener subscribes or unsubscribes during a notification,
\* every other listener registered when the dispatch began is still invoked
\* exactly once ("once" is the listener that removes itself).
C8_NoListenerSkipped ==
  [][lastOp' = "startGame"
       => \A id \in ListenerIds \ {"once"} :
            Cardinality(ListenerCalls(log', id)) = Cardinality(Occurrences(listeners, id))]_vars

\* C9: when a listener or handler throws during a dispatch (and none changes
\* the registrations), the remaining listeners and handlers of the dispatch
\* are still invoked, each once and in order, and the operation completes
\* with its state change applied.
Quiet == {"a", "b", "thrower"}
C9_ThrowDoesNotAbort ==
  [][(/\ lastOp' = "pauseGame"
      /\ state.phase = "playing"
      /\ \A i \in DOMAIN listeners : listeners[i] \in Quiet
      /\ \A i \in DOMAIN eventHandlers["paused"] : eventHandlers["paused"][i] \in Quiet)
       => /\ state'.phase = "paused"
          /\ listeners' = listeners
          /\ eventHandlers' = eventHandlers
          /\ \A id \in Quiet :
               /\ Cardinality(ListenerCalls(log', id))
                    = Cardinality(Occurrences(listeners, id))
               /\ Cardinality(HandlerCalls(log', "paused", id))
                    = Cardinality(Occurrences(eventHandlers["paused"], id))
          /\ Len(log') = Len(listeners) + Len(eventHandlers["paused"])]_vars

\* pauseGame has run with a throwing listener and a throwing handler
\* registered first: the listener and the handler after them were called.
C9_Witness ==
  /\ lastOp = "pauseGame"
  /\ state.phase = "paused"
  /\ listeners = <<"thrower", "a">>
  /\ eventHandlers["paused"] = <<"thrower", "a">>
  /\ log = << [ch |-> "event", id |-> "thrower", type |-> "paused",
               data |-> [previousPhase |-> "playing", currentPhase |-> "paused"]],
              [ch |-> "event", id |-> "a", type |-> "paused",
               data |-> [previousPhase |-> "playing", currentPhase |-> "paused"]],
              [ch |-> "listener", id |-> "thrower", type |-> "state",
               data |-> [phase |-> "paused"]],
              [ch |-> "listener", id |-> "a", type |-> "state",
               data |-> [phase |-> "paused"]] >>

(***************************************************************************)
(* The pool's claims, checked under SpecPool.                              *)
(***************************************************************************)

\* C10: active plus free instances never exceed maxSize, and get() returns
\* null exactly when, at the call, the free list is empty and active plus
\* free equals maxSize.
C10_CapacityRespected ==
  /\ [](PoolTotalSize(tpool) <= tpool.maxSize)
  /\ [][poolOp' = "get" =>
          ((~lastGet'.ok) <=>
             (tpool.pool = <<>> /\ PoolTotalSize(tpool) = tpool.maxSize))]_vars

\* A pool that constructed instances lazily up to its capacity, with all of
\* them active, has just refused a get().
C10_Witness ==
  /\ poolOp = "get"
  /\ ~lastGet.ok
  /\ tpool.maxSize = 2
  /\ Len(tpool.active) = 2
  /\ tpool.pool = <<>>

(***************************************************************************)
(* Helpers of the pool claims.                                             *)
(***************************************************************************)
\* The canonical zero/off state of the bullet with the given identity.
ZeroOff(id) == [id |-> id, x |-> 0, y |-> 0, active |-> FALSE]

FreeIds(p) == {p.pool[i].id : i \in 1..Len(p.pool)}

\* The sequence without its i-th element.
Without(seq, i) ==
  [j \in 1..(Len(seq) - 1) |-> IF j < i THEN seq[j] ELSE seq[j + 1]]

\* The indices of the active list whose instance reports inactive.
Dead(p) == {i \in 1..Len(p.active) :
              ~(p.active[i].active /\ p.active[i].y > -BulletHeight)}

\* C11: release(handle) on an active handle moves that one instance from
\* the active list to the end of the free list in its zero/off state; on
\* any other handle (already released, never acquired) it changes
\* nothing; and no instance is ever in the free list twice or in both lists.
C11_ReleaseMovesOne ==
  /\ [][poolOp' = "release" =>
          IF lastCall'.arg \in ActiveIds(tpool)
          THEN \E i \in 1..Len(tpool.active) :
                 /\ tpool.active[i].id = lastCall'.arg
                 /\ tpool'.active = Without(tpool.active, i)
                 /\ tpool'.pool = Append(tpool.pool, ZeroOff(lastCall'.arg))
          ELSE tpool' = tpool]_vars
  /\ [](Cardinality(FreeIds(tpool) \cup ActiveIds(tpool))
          = Len(tpool.pool) + Len(tpool.active))

\* A handle that is already in the free list has just been released again
\* while another instance is active.
C11_Witness ==
  /\ poolOp = "release"
  /\ lastCall.reclaimed = 0
  /\ lastCall.arg \in FreeIds(tpool)
  /\ Len(tpool.active) = 1

\* C12: releaseAll() empties the active list, appends every instance that
\* was active to the free list in its zero/off state, and keeps the total.
C12_ReleaseAllRestores ==
  [][poolOp' = "releaseAll" =>
       /\ tpool'.active = <<>>
       /\ tpool'.pool = tpool.pool \o
            [i \in 1..Len(tpool.active) |-> ZeroOff(tpool.active[i].id)]
       /\ PoolTotalSize(tpool') = PoolTotalSize(tpool)]_vars

\* releaseAll() has just reclaimed two active instances.
C12_Witness ==
  /\ poolOp = "releaseAll"
  /\ lastCall.reclaimed = 2
  /\ tpool.active = <<>>
  /\ Len(tpool.pool) = 2

\* C13: update() removes from the active list exactly the instances that
\* report inactive, puts each of them in the free list in its zero/off
\* state, and keeps the others in the active list in their order.
C13_UpdateReapsInactive ==
  [][poolOp' = "update" =>
       /\ tpool'.active =
            SelectSeq(tpool.active,
                      LAMBDA b : b.active /\ b.y > -BulletHeight)
       /\ Len(tpool'.pool) = Len(tpool.pool) + Cardinality(Dead(tpool))
       /\ SubSeq(tpool'.pool, 1, Len(tpool.pool)) = tpool.pool
       /\ \A i \in Dead(tpool) :
            \E j \in (Len(tpool.pool) + 1)..Len(tpool'.pool) :
              tpool'.pool[j] = ZeroOff(tpool.active[i].id)]_vars

\* update() has just reaped one of two active instances and kept the other.
C13_Witness ==
  /\ poolOp = "update"
  /\ lastCall.reclaimed = 1
  /\ Len(tpool.active) = 1
  /\ tpool.active[1].active

(***************************************************************************)
(* Helpers of the formation claims.                                        *)
(***************************************************************************)
\* The step just taken was a call of updateEnemyPositions.
Updated == formationTicks' = formationTicks + 1

Actives(enemies) == {i \in DOMAIN enemies : enemies[i].active}

\* The enemy's projected x is at or beyond a boundary, inclusively.
AtBoundary(e) ==
  \/ e.x + e.speed * e.direction <= 0
  \/ e.x + e.speed * e.direction >= CanvasWidth - EnemyWidth

\* C14: when some active enemy's projected x is <= 0 or >= canvasWidth -
\* enemyWidth, the call negates the direction of every active enemy, adds
\* the drop distance to its y and leaves its x alone.
C14_BoundaryDropsAll ==
  [][(Updated /\ \E i \in Actives(formation) : AtBoundary(formation[i])) =>
       \A i \in Actives(formation) :
         /\ formation'[i].direction = -formation[i].direction
         /\ formation'[i].y = formation[i].y + EnemyDropDistance
         /\ formation'[i].x = formation[i].x]_vars

\* The first enemy's projected x was exactly canvasWidth - enemyWidth, the
\* second was away from both boundaries, and both have dropped.
C14_Witness ==
  /\ formationTicks = 1
  /\ Len(formation) = 2
  /\ formation[1] = [TestEnemy(0, 759, -1, TRUE)
                        EXCEPT !.y = EnemyStartY + EnemyDropDistance]
  /\ formation[2] = [TestEnemy(1, 50, -1, TRUE)
                        EXCEPT !.y = EnemyStartY + EnemyDropDistance]

\* C15: when no active enemy's projected x reaches a boundary, the call
\* returns shouldMoveDown = false and moves every active enemy by speed *
\* direction in x, leaving its y and direction alone.
C15_StepMovesAll ==
  [][(Updated /\ \A i \in Actives(formation) : ~AtBoundary(formation[i])) =>
       /\ ~movedDown'
       /\ \A i \in Actives(formation) :
            /\ formation'[i].x =
                 formation[i].x + formation[i].speed * formation[i].direction
            /\ formation'[i].y = formation[i].y
            /\ formation'[i].direction = formation[i].direction]_vars

\* Two active enemies have stepped, the first to one short of the right
\* boundary value and the second to one short of the left one.
C15_Witness ==
  /\ formationTicks = 1
  /\ ~movedDown
  /\ Len(formation) = 2
  /\ formation[1] = TestEnemy(0, 759, 1, TRUE)
  /\ formation[2] = TestEnemy(1, 1, -1, TRUE)

\* C16: a call returns every inactive enemy as it was, and an inactive
\* enemy's projected x does not make the call drop the formation.
C16_InactiveExcluded ==
  [][Updated =>
       /\ \A i \in DOMAIN formation :
            ~formation[i].active => formation'[i] = formation[i]
       /\ (\A i \in Actives(formation) : ~AtBoundary(formation[i]))
            => ~movedDown']_vars

\* An inactive enemy whose projected x is beyond the right boundary was
\* passed with an active enemy away from the boundaries: the call made a
\* step and returned the inactive enemy as it was.
C16_Witness ==
  /\ formationTicks = 1
  /\ ~movedDown
  /\ Len(formation) = 2
  /\ formation[1] = TestEnemy(0, 760, 1, FALSE)
  /\ formation[2] = TestEnemy(1, 51, 1, TRUE)

\* An enemy's direction and its displacement from where it was placed.
Displacement(e, placed) == <<e.direction, e.x - placed.x, e.y - placed.y>>

\* C17: all active enemies of a level's grid have the same direction and
\* keep the x and y offsets they had to each other in the fresh grid: they
\* all have the same displacement from their places in the fresh grid.
C17_RigidGroup ==
  Cardinality({Displacement(formation[i], CreateEnemyGrid[i]) :
                 i \in Actives(formation)}) <= 1

\* The grid has bounced off the right boundary and then off the left one,
\* with the rightmost column shot on the way, part of it before the first
\* tick and part of it at the right boundary.
C17_Witness ==
  /\ formation[1].active
  /\ formation[1].direction = 1
  /\ formation[1].y = EnemyStartY + 2 * EnemyDropDistance
  /\ ~formation[EnemyCols].active
  /\ formation[EnemyCols].x = CreateEnemyGrid[EnemyCols].x
  /\ ~formation[2 * EnemyCols].active
  /\ formation[2 * EnemyCols].x > CreateEnemyGrid[2 * EnemyCols].x

(***************************************************************************)
(* Claims about nextLevel and loseLife.                                    *)
(***************************************************************************)
\* The last frame callback ran one update, and in it the manager emitted
\* levelComplete, or playerHit with lives remaining.
RespawnedInFrame ==
  /\ lastOp' = "frame"
  /\ calls' = <<"update", "render">>
  /\ \E i \in DOMAIN emitted' :
       \/ emitted'[i].type = "levelComplete"
       \/ /\ emitted'[i].type = "playerHit"
          /\ emitted'[i].data.livesRemaining > 0

\* C18: when nextLevel, or loseLife with lives remaining, has completed in
\* a tick of play, no bullet and no particle is active in the pools.
C18_PoolsClearedOnRespawn ==
  [][RespawnedInFrame =>
       /\ PoolGetActive(bulletPool') = <<>>
       /\ PoolGetActive(particlePool') = <<>>]_vars

\* C19: loseLife with lives >= 2 takes exactly one life, leaves phase,
\* score and level as they were, puts the player at the start position and
\* replaces the enemies with a fresh full grid of active enemies.
C19_LoseLifeRespawns ==
  [][(lastOp' = "loseLife" /\ state.lives >= 2) =>
       /\ state'.lives = state.lives - 1
       /\ state'.phase = state.phase
       /\ state'.score = state.score
       /\ state'.level = state.level
       /\ state'.player.x = CreatePlayer.x
       /\ state'.player.y = CreatePlayer.y
       /\ state'.enemies = CreateEnemyGrid
       /\ Len(state'.enemies) = EnemyRows * EnemyCols
       /\ \A i \in DOMAIN state'.enemies : state'.enemies[i].active]_vars

\* A paused game whose player had moved and whose grid had lost an enemy
\* has lost its first life.
C19_Witness ==
  /\ lastOp = "loseLife"
  /\ state.lives = InitialLives - 1
  /\ state.phase = "paused"
  /\ state.score = PointsPerEnemy
  /\ state.player.x = CreatePlayer.x
  /\ state.enemies = CreateEnemyGrid

\* C20: nextLevel adds exactly one to the level, replaces the enemies with
\* a fresh full grid, puts the player at the start position and leaves
\* score, lives and phase as they were.
C20_NextLevelAdvances ==
  [][lastOp' = "nextLevel" =>
       /\ state'.level = state.level + 1
       /\ state'.enemies = CreateEnemyGrid
       /\ state'.player.x = CreatePlayer.x
       /\ state'.player.y = CreatePlayer.y
       /\ state'.score = state.score
       /\ state'.lives = state.lives
       /\ state'.phase = state.phase]_vars

\* nextLevel has been called on a game with a score and two lives, in play.
C20_Witness ==
  /\ lastOp = "nextLevel"
  /\ state.level = 2
  /\ state.score = PointsPerEnemy
  /\ state.lives = InitialLives - 1
  /\ state.phase = "playing"
  /\ state.player.x = CreatePlayer.x
  /\ state.enemies = CreateEnemyGrid

\* C21: whatever the state before it (any phase, a game over, a listener
\* that throws), startGame leaves the one clean state: phase playing, score
\* 0, full lives, level 1, the player at the start position and a full
\* grid of active enemies whose first cell is at the configured start and
\* whose rows are one row pitch apart.
C21_StartGameClean ==
  [][lastOp' = "startGame" =>
       /\ state'.phase = "playing"
       /\ state'.score = 0
       /\ state'.lives = InitialLives
       /\ state'.level = 1
       /\ state'.player.x = CreatePlayer.x
       /\ state'.player.y = CreatePlayer.y
       /\ state'.bullets = <<>>
       /\ state'.particles = <<>>
       /\ Len(state'.enemies) = EnemyRows * EnemyCols
       /\ \A i \in DOMAIN state'.enemies : state'.enemies[i].active
       /\ state'.enemies[1].x = EnemyStartX
       /\ state'.enemies[1].y = EnemyStartY
       /\ \A i \in 1..((EnemyRows - 1) * EnemyCols) :
            /\ state'.enemies[i + EnemyCols].y
                 = state'.enemies[i].y + EnemyHeight + EnemySpacingV
            /\ state'.enemies[i + EnemyCols].x = state'.enemies[i].x]_vars

\* startGame has been called on a manager whose first listener threw and
\* whose second listener was still called.
C21_Witness ==
  /\ lastOp = "startGame"
  /\ state.phase = "playing"
  /\ state.lives = InitialLives
  /\ listeners = <<"thrower", "a">>
  /\ Len(log) = 2

\* C22: pauseGame changes the phase only when it is playing, to paused;
\* resumeGame changes it only when it is paused, to playing; in any other
\* phase each leaves the whole state as it was, and neither ever changes
\* score, lives, level, enemies or player.
C22_PauseResumeGuarded ==
  [][/\ lastOp' = "pauseGame" =>
          state' = IF state.phase = "playing"
                   THEN [state EXCEPT !.phase = "paused"]
                   ELSE state
     /\ lastOp' = "resumeGame" =>
          state' = IF state.phase = "paused"
                   THEN [state EXCEPT !.phase = "playing"]
                   ELSE state
     /\ lastOp' \in {"pauseGame", "resumeGame"} =>
          /\ state'.score = state.score
          /\ state'.lives = state.lives
          /\ state'.level = state.level
          /\ state'.enemies = state.enemies
          /\ state'.player = state.player]_vars

\* A game with a score and a lost life has been paused and resumed: the
\* resume changed the phase and emitted the playing event.
C22_Witness ==
  /\ lastOp = "resumeGame"
  /\ state.phase = "playing"
  /\ Len(emitted) = 1
  /\ emitted[1].data.previousPhase = "paused"
  /\ state.score > 0
  /\ state.lives < InitialLives

\* C23: after any sequence of startGame, pauseGame, resumeGame, loseLife,
\* nextLevel, addScore, reset and ticks the lives are between 0 and the
\* initial lives, and loseLife called with no life left leaves the lives
\* at 0.
C23_LivesInRange ==
  /\ [](state.lives \in 0..InitialLives)
  /\ [][(lastOp' = "loseLife" /\ state.lives = 0) => state'.lives = 0]_vars

\* loseLife has been called on a game that was already over with no life
\* left: no phase change was emitted, only gameOver and playerHit.
C23_Witness ==
  /\ lastOp = "loseLife"
  /\ state.lives = 0
  /\ state.phase = "gameOver"
  /\ Len(emitted) = 2
  /\ emitted[2].data.livesRemaining = 0

C25_UpdateFaultContained ==
  [][(clock' # clock /\ fault'.update > 0) =>
       /\ lag' = 0
       /\ Len(calls') = fault'.update + 1
       /\ \A i \in 1..fault'.update : calls'[i] = "update"
       /\ calls'[Len(calls')] = "render"
       /\ interp' = Interpolation(0)]_vars

\* The second onUpdate call of a frame callback threw: two update calls,
\* the render call, and an empty accumulator.
C25_Witness ==
  /\ fault.update = 2
  /\ calls = <<"update", "update", "render">>
  /\ lag = 0

\* C26: the scheduler does not hang on a fault: a frame callback in which
\* onUpdate or onRender threw still requests the next frame, and the frame
\* callbacks after it call onRender once and call onUpdate whenever a tick
\* of lag has accumulated.
C26_FaultDoesNotStopLoop ==
  /\ [][(clock' # clock /\ (fault'.update > 0 \/ fault'.render)) =>
          requestRef' /\ pending' = 1]_vars
  /\ [][(clock' # clock /\ fault'.earlier) =>
          /\ calls' # <<>>
          /\ calls'[Len(calls')] = "render"
          /\ (previousTime # Undefined /\ lag + (clock' - clock) >= TargetFrameTime)
               => calls'[1] = "update"]_vars

\* After a frame callback that caught an exception, a frame callback has
\* run one update and the render without a fault, and the next is pending.
C26_Witness ==
  /\ fault.earlier
  /\ fault.update = 0
  /\ ~fault.render
  /\ calls = <<"update", "render">>
  /\ requestRef

\* C27: once the scheduler is torn down, its pending frame callback
\* cancelled by the effect's cleanup, no onUpdate or onRender call is made
\* again and the old loop has no frame callback pending or requested,
\* whether the cleanup ran for a loop that was active or inactive.
C27_TornDownStaysQuiet ==
  /\ []((torn \/ ~isActive) => (~requestRef /\ pending = 0))
  /\ [][torn => (clock' = clock /\ calls' = calls /\ pending' = 0)]_vars

\* A loop that had run frame callbacks was deactivated and then unmounted.
C27_Witness ==
  /\ torn
  /\ ~isActive
  /\ calls # <<>>
  /\ pending = 0


(***************************************************************************)
(* The input latch's claims, checked under SpecKeyboard.                   *)
(***************************************************************************)

\* C28: under every sequence of key-down, key-up, blur, visibility and
\* frame events, no key outside the allow-list is in the held, just-pressed
\* or just-released set (or in the previous-frame snapshot they are
\* computed from).
C28_OnlyAllowedKeys ==
  (kb.keys \cup kb.justPressed \cup kb.justReleased \cup kb.previousKeys)
    \subseteq AllowedKeys

\* A key that is not allowed went down while space was held and reported.
C28_Witness ==
  /\ keyLog.event = <<"keydown", "a">>
  /\ "a" \in keyLog.sinceBlur
  /\ IsPressed(kb, "Space")
  /\ kb.justPressed # {}

\* C29: on window blur or when the tab is hidden the latch loses all key
\* state: the held, just-pressed and just-released sets and the
\* previous-frame snapshot are empty right after the event, and a key that
\* was held at that moment is reported neither pressed nor just released
\* in the frames that follow, until a key-down of it arrives.
C29_BlurClearsLatch ==
  /\ [](keyLog.event[1] \in {"blur", "hidden"} => kb = KeyboardEmpty)
  /\ [](\A k \in keyLog.lost \ keyLog.sinceBlur :
          /\ ~IsPressed(kb, NormalizeKey(k))
          /\ ~WasJustReleased(kb, NormalizeKey(k))
          /\ ~WasJustPressed(kb, NormalizeKey(k)))

\* Space and Enter were held when the latch was cleared; since then frames
\* have run, Enter has gone down again and is pressed, space is not.
C29_Witness ==
  /\ keyLog.event = <<"frame">>
  /\ keyLog.lost = {" ", "Enter"}
  /\ keyLog.sinceBlur = {"Enter"}
  /\ IsPressed(kb, "Enter")
  /\ ~IsPressed(kb, "Space")
  /\ kb.previousKeys = {"Enter"}

\* C30 as stated: at every frame update the just-pressed set holds exactly
\* the keys whose key-down arrived, while they were not held, since the
\* last frame update and that are still held (so a held key is in it for
\* one frame only, and a repeated key-down does not put it back), and the
\* just-released set holds exactly the keys held at the last frame update
\* whose key-up arrived since.
C30_EdgeTriggeredAlways ==
  [][keyLog'.event = <<"frame">> =>
       \A k \in KbKeys \cap AllowedKeys :
         /\ WasJustPressed(kb', NormalizeKey(k)) <=> k \in keyLog.fresh
         /\ WasJustReleased(kb', NormalizeKey(k)) <=> k \in keyLog.released]_vars

\* C30, amended: the same, for every key that was not released and pressed
\* again between the two frame updates; a key that was is in neither set.
C30_EdgeTriggered ==
  [][keyLog'.event = <<"frame">> =>
       \A k \in KbKeys \cap AllowedKeys :
         IF k \in keyLog.fresh \cap keyLog.released
         THEN /\ ~WasJustPressed(kb', NormalizeKey(k))
              /\ ~WasJustReleased(kb', NormalizeKey(k))
         ELSE /\ WasJustPressed(kb', NormalizeKey(k)) <=> k \in keyLog.fresh
              /\ WasJustReleased(kb', NormalizeKey(k)) <=> k \in keyLog.released]_vars

\* A frame update has reported Enter just released and space just pressed,
\* with space held and in the snapshot.
C30_Witness ==
  /\ keyLog.event = <<"frame">>
  /\ WasJustReleased(kb, "Enter")
  /\ ~IsPressed(kb, "Enter")
  /\ WasJustPressed(kb, "Space")
  /\ IsPressed(kb, "Space")
  /\ kb.previousKeys = {" ", "Space"}

(***************************************************************************)
(* The game's input and tick claims.                                       *)
(***************************************************************************)

\* C31: one press of the shoot key makes the game acquire at most one
\* bullet: the key is just-pressed during one animation frame, and however
\* many simulation ticks (0 to 5) that frame runs, the number of active
\* bullets grows by at most one in it.
C31_OneBulletPerPress ==
  [][Len(PoolGetActive(bulletPool')) <= Len(PoolGetActive(bulletPool)) + 1]_vars

\* C32: checkCollision(a, b) is true exactly when the two rectangles
\* overlap on both axes with strict inequalities: it is symmetric in its
\* arguments, it is false for rectangles that only share an edge (or are
\* apart), and it is true for rectangles of positive size that overlap in
\* more than an edge.
C32_CollisionStrictSymmetric ==
  calc.op = "checkCollision" =>
    LET a == calc.a
        b == calc.b
        apartX == a.x + a.width <= b.x \/ b.x + b.width <= a.x
        apartY == a.y + a.height <= b.y \/ b.y + b.height <= a.y
    IN /\ calc.result = CheckCollision(b, a)
       /\ (apartX \/ apartY) => ~calc.result
       /\ (~apartX /\ ~apartY) => calc.result

\* The rectangles of the edge-touching test, {10,10,20,20} and
\* {30,10,20,20}, were compared and found not to collide.
C32_Witness ==
  /\ calc.op = "checkCollision"
  /\ calc.a = [x |-> 10, y |-> 10, width |-> 20, height |-> 20]
  /\ calc.b = [x |-> 30, y |-> 10, width |-> 20, height |-> 20]
  /\ ~calc.result

\* C33: the player is confined horizontally: after any sequence of
\* simulation ticks with any combination of the left and right keys held,
\* loseLife, nextLevel and startGame, the player's x is between 0 and
\* canvasWidth - playerWidth, where clampToCanvas keeps it.
C33_PlayerConfined ==
  /\ 0 <= state.player.x
  /\ state.player.x <= CanvasWidth - PlayerWidth
  /\ state.player.x = ClampToCanvas(state.player.x, state.player.width, CanvasWidth)

\* Two ticks have run with the left key held and the player at the left
\* edge: the step to the left was clamped.
C33_Witness ==
  /\ lastOp = "tick"
  /\ perf.frameCount = 2
  /\ IsPressed(kb, "ArrowLeft")
  /\ ~IsPressed(kb, "ArrowRight")
  /\ state.player.x = 0
  /\ state.phase = "playing"

\* One simulation tick ran in the step, in play before and after.
OneTickInPlay ==
  /\ perf'.frameCount = perf.frameCount + 1
  /\ state.phase = "playing"
  /\ state'.phase = "playing"

NumActive(enemies) == Cardinality({i \in DOMAIN enemies : enemies[i].active})

\* C34: the formation is cleared exactly when every enemy is inactive, and
\* in play clearing it advances the level exactly once: the level
\* increases only in a tick that began with every enemy inactive, by one
\* and with a fresh fully active grid; a tick that begins with every enemy
\* inactive does so; and when a tick destroys the last active enemy, the
\* formation is cleared at its end, to be replaced in the next tick.
C34_ClearAdvancesLevel ==
  [][OneTickInPlay =>
       /\ state'.level # state.level =>
            /\ IsLevelComplete(state.enemies)
            /\ state'.level = state.level + 1
            /\ NumActive(state'.enemies) = EnemyRows * EnemyCols
       /\ IsLevelComplete(state.enemies) => state'.level = state.level + 1
       /\ (NumActive(state.enemies) = 1 /\ state'.score > state.score) =>
            \/ IsLevelComplete(state'.enemies)
            \/ state'.level = state.level + 1]_vars


\* The instances of a pool that are out: in its active list.
Out(p) == ActiveIds(p)

\* The instances that can be out within the bound: the last MaxInFlight of
\* the bullets constructed, and the last MaxInFlight bursts of particles.
Shots == (BulletPoolInitial - MaxInFlight + 1)..BulletPoolInitial
Sparks == (ParticlePoolInitial - MaxInFlight * ParticleCount + 1)..ParticlePoolInitial

AllLive(p) == \A i \in 1..Len(p.active) : ObjIsActive(p.kind, p.active[i])

\* C35: while ticks continue in play, every bullet fired and every particle
\* spawned is eventually back in its pool's free list; after each tick no
\* instance that reports inactive is left in an active list, and a
\* particle's life is never negative.
C35_EventuallyReclaimed ==
  /\ [](/\ Out(bulletPool) \subseteq Shots
        /\ Out(particlePool) \subseteq Sparks
        /\ AllLive(bulletPool)
        /\ AllLive(particlePool)
        /\ \A i \in 1..Len(particlePool.active) : particlePool.active[i].life >= 0)
  /\ \A id \in Shots : (id \in Out(bulletPool)) ~> (id \in FreeIds(bulletPool))
  /\ \A id \in Sparks : (id \in Out(particlePool)) ~> (id \in FreeIds(particlePool))

\* Two bullets are out, one about to leave the canvas, and a burst of
\* particles is in its last tick.
C35_Witness ==
  /\ state.phase = "playing"
  /\ \E i \in 1..Len(bulletPool.active) :
       bulletPool.active[i].y <= BulletSpeed - BulletHeight
  /\ Len(bulletPool.active) + Len(particlePool.active) > 1

\* C36: one press of a pause key toggles the phase exactly once: the
\* key-down toggles between playing and paused, and nothing but a key-down
\* does: no animation frame takes the game from playing to paused or from
\* paused to playing.
C36_PauseTogglesOnce ==
  [][/\ lastOp' = "keydown" =>
          /\ state.phase = "playing" => state'.phase = "paused"
          /\ state.phase = "paused" => state'.phase = "playing"
     /\ lastOp' # "keydown" =>
          /\ state.phase = "playing" => state'.phase # "paused"
          /\ state.phase = "paused" => state'.phase # "playing"]_vars

\* C37: each destroyed enemy is scored exactly once, also when two bullets
\* overlap it in the same tick.  Over an animation frame that replaces no
\* grid (lives and level are as before) the score grows by pointsPerEnemy
\* times the number of enemies that went inactive; over one that does, by
\* no more than pointsPerEnemy times the number of enemies that were active.
C37_ScoreCountsEnemies ==
  [][lastOp' = "frame" =>
       IF state'.lives = state.lives /\ state'.level = state.level
       THEN state'.score - state.score =
              PointsPerEnemy * (NumActive(state.enemies) - NumActive(state'.enemies))
       ELSE state'.score - state.score <= PointsPerEnemy * NumActive(state.enemies)]_vars


\* The simulation ticks of the last animation frame.
TicksRun == Cardinality({i \in 1..Len(calls) : calls[i] = "update"})

\* C38: the simulation ticks of a frame that begins while the phase is not
\* playing leave score, lives, level, phase, player, enemies and both pools'
\* active and free lists as they were: no bullet moves, no collision is
\* processed and no bullet is fired.
C38_IdleTickChangesNothing ==
  [][(lastOp' = "frame" /\ state.phase # "playing") =>
       /\ state'.score = state.score
       /\ state'.lives = state.lives
       /\ state'.level = state.level
       /\ state'.phase = state.phase
       /\ state'.player = state.player
       /\ state'.enemies = state.enemies
       /\ bulletPool' = bulletPool
       /\ particlePool' = particlePool]_vars

\* A frame has run ticks while the game was paused with a bullet in flight
\* and the shoot key just pressed.
C38_Witness ==
  /\ lastOp = "frame"
  /\ TicksRun > 0
  /\ state.phase = "paused"
  /\ bulletPool.active # <<>>
  /\ WasJustPressed(kb, " ")


\* C39: every instance a pool has created is in exactly one of its active
\* list and its free list, exactly once, and every instance in the free list
\* is in its reset state.
C39_PoolPartition ==
  /\ ActiveIds(tpool) \cup FreeIds(tpool) = 1..tpool.created
  /\ ActiveIds(tpool) \cap FreeIds(tpool) = {}
  /\ Cardinality(ActiveIds(tpool)) = Len(tpool.active)
  /\ Cardinality(FreeIds(tpool)) = Len(tpool.pool)
  /\ \A i \in 1..Len(tpool.pool) :
       tpool.pool[i] = CreateFn(tpool.kind, tpool.pool[i].id)

\* An update has reclaimed a bullet that had moved, while another instance
\* stays active.
C39_Witness ==
  /\ poolOp = "update"
  /\ lastCall.reclaimed > 0
  /\ tpool.active # <<>>
  /\ tpool.pool # <<>>


\* The update calls that fit in one second at the monitor's interval.
PerSecond == FpsWindow \div calc.interval

\* C40: with update called at a steady interval shorter than a second, fps
\* is recomputed once per elapsed second: from the first full second on,
\* getFPS() is the number of update calls made in a second, give or take
\* the call on the boundary.
C40_FpsPerSecond ==
  (calc.op = "monitor" /\ (calc.updates - 1) * calc.interval >= FpsWindow + calc.interval) =>
    perf.fps \in (PerSecond - 1)..(PerSecond + 1)

=============================================================================
